---------------------------- MODULE Spec2Model ----------------------------
(***************************************************************************)
(* The command execution and validation harness of driftmgr's user         *)
(* simulation (scripts/tools/user_simulation.py): run_command, the         *)
(* availability probe, validate_command_result with its statistics, the    *)
(* LoadingBar and the TUI progress wrapper, the phase tables and           *)
(* run_full_simulation; and the session counters of the comprehensive      *)
(* simulation (scripts/tools/user_simulation_comprehensive.py).            *)
(*                                                                         *)
(* A Python str is modelled as a tuple of literal fragments; Str gives its *)
(* characters, and lower(), `in` and join work on the characters.          *)
(***************************************************************************)
EXTENDS Integers, Sequences, FiniteSets, TLC

VARIABLES
  pc,                  \* where main / run_full_simulation stands
  env,                 \* the world outside: the tool's behaviour, the random draw
  driftmgr_available,  \* self._driftmgr_available; NotSet while hasattr is false
  test_summary,        \* self.test_summary
  simulation_results,  \* self.simulation_results
  tui,                 \* self.tui (SimulationTUI) with its LoadingBar
  phase,               \* index of the phase being run, 1..11
  phase_commands,      \* the command list built by the running phase
  idx,                 \* position of the phase's for loop in phase_commands
  ret,                 \* what the last run_command call did and returned
  report,              \* what run_full_simulation returned
  probes,              \* number of executions of validate_driftmgr_availability
  launches,            \* number of subprocess.run launches made by run_command
  calls,               \* number of run_command calls made
  loading_bar,         \* a LoadingBar used on its own, None when there is none
  lock,                \* the threads that hold bar.lock: none or one
  threads,             \* each thread's frame: where it stands, its arguments and locals
  sys_stdout,          \* what LoadingBar wrote to sys.stdout, in order
  user_session         \* self.user_session of a DriftMgrUserSimulation, None when there is none

vars == <<pc, env, driftmgr_available, test_summary, simulation_results, tui,
          phase, phase_commands, idx, ret, report, probes, launches, calls,
          loading_bar, lock, threads, sys_stdout, user_session>>

\* the state of a LoadingBar used on its own and of the threads around it
threading == <<loading_bar, lock, threads, sys_stdout>>

-----------------------------------------------------------------------------
(* Python strings *)

Chars ==
  ("" :> <<>>) @@
  (" " :> <<" ">>) @@
  ("*.tfstate" :> <<"*", ".", "t", "f", "s", "t", "a", "t", "e">>) @@
  ("*.tfstate.backup" :> <<"*", ".", "t", "f", "s", "t", "a", "t", "e", ".", "b", "a", "c", "k", "u", "p">>) @@
  ("--all-providers" :> <<"-", "-", "a", "l", "l", "-", "p", "r", "o", "v", "i", "d", "e", "r", "s">>) @@
  ("--all-regions" :> <<"-", "-", "a", "l", "l", "-", "r", "e", "g", "i", "o", "n", "s">>) @@
  ("--analyze" :> <<"-", "-", "a", "n", "a", "l", "y", "z", "e">>) @@
  ("--auto" :> <<"-", "-", "a", "u", "t", "o">>) @@
  ("--backup" :> <<"-", "-", "b", "a", "c", "k", "u", "p">>) @@
  ("--check" :> <<"-", "-", "c", "h", "e", "c", "k">>) @@
  ("--check-consistency" :> <<"-", "-", "c", "h", "e", "c", "k", "-", "c", "o", "n", "s", "i", "s", "t", "e", "n", "c", "y">>) @@
  ("--check-modules" :> <<"-", "-", "c", "h", "e", "c", "k", "-", "m", "o", "d", "u", "l", "e", "s">>) @@
  ("--check-outputs" :> <<"-", "-", "c", "h", "e", "c", "k", "-", "o", "u", "t", "p", "u", "t", "s">>) @@
  ("--check-resources" :> <<"-", "-", "c", "h", "e", "c", "k", "-", "r", "e", "s", "o", "u", "r", "c", "e", "s">>) @@
  ("--cloudformation" :> <<"-", "-", "c", "l", "o", "u", "d", "f", "o", "r", "m", "a", "t", "i", "o", "n">>) @@
  ("--compliance" :> <<"-", "-", "c", "o", "m", "p", "l", "i", "a", "n", "c", "e">>) @@
  ("--config" :> <<"-", "-", "c", "o", "n", "f", "i", "g">>) @@
  ("--create" :> <<"-", "-", "c", "r", "e", "a", "t", "e">>) @@
  ("--days" :> <<"-", "-", "d", "a", "y", "s">>) @@
  ("--detect" :> <<"-", "-", "d", "e", "t", "e", "c", "t">>) @@
  ("--directory" :> <<"-", "-", "d", "i", "r", "e", "c", "t", "o", "r", "y">>) @@
  ("--dry-run" :> <<"-", "-", "d", "r", "y", "-", "r", "u", "n">>) @@
  ("--fix" :> <<"-", "-", "f", "i", "x">>) @@
  ("--force" :> <<"-", "-", "f", "o", "r", "c", "e">>) @@
  ("--format" :> <<"-", "-", "f", "o", "r", "m", "a", "t">>) @@
  ("--host" :> <<"-", "-", "h", "o", "s", "t">>) @@
  ("--include-drift" :> <<"-", "-", "i", "n", "c", "l", "u", "d", "e", "-", "d", "r", "i", "f", "t">>) @@
  ("--include-health" :> <<"-", "-", "i", "n", "c", "l", "u", "d", "e", "-", "h", "e", "a", "l", "t", "h">>) @@
  ("--include-resources" :> <<"-", "-", "i", "n", "c", "l", "u", "d", "e", "-", "r", "e", "s", "o", "u", "r", "c", "e", "s">>) @@
  ("--init" :> <<"-", "-", "i", "n", "i", "t">>) @@
  ("--install" :> <<"-", "-", "i", "n", "s", "t", "a", "l", "l">>) @@
  ("--interactive" :> <<"-", "-", "i", "n", "t", "e", "r", "a", "c", "t", "i", "v", "e">>) @@
  ("--invalid-flag" :> <<"-", "-", "i", "n", "v", "a", "l", "i", "d", "-", "f", "l", "a", "g">>) @@
  ("--invalid-format" :> <<"-", "-", "i", "n", "v", "a", "l", "i", "d", "-", "f", "o", "r", "m", "a", "t">>) @@
  ("--invalid-host" :> <<"-", "-", "i", "n", "v", "a", "l", "i", "d", "-", "h", "o", "s", "t">>) @@
  ("--invalid-option" :> <<"-", "-", "i", "n", "v", "a", "l", "i", "d", "-", "o", "p", "t", "i", "o", "n">>) @@
  ("--invalid-path" :> <<"-", "-", "i", "n", "v", "a", "l", "i", "d", "-", "p", "a", "t", "h">>) @@
  ("--invalid-pattern" :> <<"-", "-", "i", "n", "v", "a", "l", "i", "d", "-", "p", "a", "t", "t", "e", "r", "n">>) @@
  ("--invalid-port" :> <<"-", "-", "i", "n", "v", "a", "l", "i", "d", "-", "p", "o", "r", "t">>) @@
  ("--invalid-provider" :> <<"-", "-", "i", "n", "v", "a", "l", "i", "d", "-", "p", "r", "o", "v", "i", "d", "e", "r">>) @@
  ("--invalid-severity" :> <<"-", "-", "i", "n", "v", "a", "l", "i", "d", "-", "s", "e", "v", "e", "r", "i", "t", "y">>) @@
  ("--list" :> <<"-", "-", "l", "i", "s", "t">>) @@
  ("--live" :> <<"-", "-", "l", "i", "v", "e">>) @@
  ("--output" :> <<"-", "-", "o", "u", "t", "p", "u", "t">>) @@
  ("--pattern" :> <<"-", "-", "p", "a", "t", "t", "e", "r", "n">>) @@
  ("--plan" :> <<"-", "-", "p", "l", "a", "n">>) @@
  ("--port" :> <<"-", "-", "p", "o", "r", "t">>) @@
  ("--provider" :> <<"-", "-", "p", "r", "o", "v", "i", "d", "e", "r">>) @@
  ("--recursive" :> <<"-", "-", "r", "e", "c", "u", "r", "s", "i", "v", "e">>) @@
  ("--region" :> <<"-", "-", "r", "e", "g", "i", "o", "n">>) @@
  ("--report" :> <<"-", "-", "r", "e", "p", "o", "r", "t">>) @@
  ("--reset" :> <<"-", "-", "r", "e", "s", "e", "t">>) @@
  ("--restore" :> <<"-", "-", "r", "e", "s", "t", "o", "r", "e">>) @@
  ("--security" :> <<"-", "-", "s", "e", "c", "u", "r", "i", "t", "y">>) @@
  ("--set" :> <<"-", "-", "s", "e", "t">>) @@
  ("--severity" :> <<"-", "-", "s", "e", "v", "e", "r", "i", "t", "y">>) @@
  ("--show" :> <<"-", "-", "s", "h", "o", "w">>) @@
  ("--show-details" :> <<"-", "-", "s", "h", "o", "w", "-", "d", "e", "t", "a", "i", "l", "s">>) @@
  ("--start" :> <<"-", "-", "s", "t", "a", "r", "t">>) @@
  ("--state" :> <<"-", "-", "s", "t", "a", "t", "e">>) @@
  ("--status" :> <<"-", "-", "s", "t", "a", "t", "u", "s">>) @@
  ("--stop" :> <<"-", "-", "s", "t", "o", "p">>) @@
  ("--strict" :> <<"-", "-", "s", "t", "r", "i", "c", "t">>) @@
  ("--terraform" :> <<"-", "-", "t", "e", "r", "r", "a", "f", "o", "r", "m">>) @@
  ("--test" :> <<"-", "-", "t", "e", "s", "t">>) @@
  ("--type" :> <<"-", "-", "t", "y", "p", "e">>) @@
  ("--update" :> <<"-", "-", "u", "p", "d", "a", "t", "e">>) @@
  ("--validate" :> <<"-", "-", "v", "a", "l", "i", "d", "a", "t", "e">>) @@
  ("--verbose" :> <<"-", "-", "v", "e", "r", "b", "o", "s", "e">>) @@
  ("--watch" :> <<"-", "-", "w", "a", "t", "c", "h">>) @@
  ("." :> <<".">>) @@
  ("./states" :> <<".", "/", "s", "t", "a", "t", "e", "s">>) @@
  ("./terraform" :> <<".", "/", "t", "e", "r", "r", "a", "f", "o", "r", "m">>) @@
  ("30" :> <<"3", "0">>) @@
  ("7" :> <<"7">>) @@
  ("8080" :> <<"8", "0", "8", "0">>) @@
  ("Command not found: " :> <<"C", "o", "m", "m", "a", "n", "d", " ", "n", "o", "t", " ", "f", "o", "u", "n", "d", ":", " ">>) @@
  ("Command timed out" :> <<"C", "o", "m", "m", "a", "n", "d", " ", "t", "i", "m", "e", "d", " ", "o", "u", "t">>) @@
  ("Discovered 12 resources" :> <<"D", "i", "s", "c", "o", "v", "e", "r", "e", "d", " ", "1", "2", " ", "r", "e", "s", "o", "u", "r", "c", "e", "s">>) @@
  ("DriftMgr not available - skipping command" :> <<"D", "r", "i", "f", "t", "M", "g", "r", " ", "n", "o", "t", " ", "a", "v", "a", "i", "l", "a", "b", "l", "e", " ", "-", " ", "s", "k", "i", "p", "p", "i", "n", "g", " ", "c", "o", "m", "m", "a", "n", "d">>) @@
  ("Error: unknown command" :> <<"E", "r", "r", "o", "r", ":", " ", "u", "n", "k", "n", "o", "w", "n", " ", "c", "o", "m", "m", "a", "n", "d">>) @@
  ("Found 3 resources; dry-run report on dashboard, config OK" :> <<"F", "o", "u", "n", "d", " ", "3", " ", "r", "e", "s", "o", "u", "r", "c", "e", "s", ";", " ", "d", "r", "y", "-", "r", "u", "n", " ", "r", "e", "p", "o", "r", "t", " ", "o", "n", " ", "d", "a", "s", "h", "b", "o", "a", "r", "d", ",", " ", "c", "o", "n", "f", "i", "g", " ", "O", "K">>) @@
  ("Plugin API ready" :> <<"P", "l", "u", "g", "i", "n", " ", "A", "P", "I", " ", "r", "e", "a", "d", "y">>) @@
  ("Usage: driftmgr [command] --help" :> <<"U", "s", "a", "g", "e", ":", " ", "d", "r", "i", "f", "t", "m", "g", "r", " ", "[", "c", "o", "m", "m", "a", "n", "d", "]", " ", "-", "-", "h", "e", "l", "p">>) @@
  ("[Errno 13] Permission denied: 'driftmgr'" :> <<"[", "E", "r", "r", "n", "o", " ", "1", "3", "]", " ", "P", "e", "r", "m", "i", "s", "s", "i", "o", "n", " ", "d", "e", "n", "i", "e", "d", ":", " ", "'", "d", "r", "i", "f", "t", "m", "g", "r", "'">>) @@
  ("[Errno 2] No such file or directory: 'driftmgr'" :> <<"[", "E", "r", "r", "n", "o", " ", "2", "]", " ", "N", "o", " ", "s", "u", "c", "h", " ", "f", "i", "l", "e", " ", "o", "r", " ", "d", "i", "r", "e", "c", "t", "o", "r", "y", ":", " ", "'", "d", "r", "i", "f", "t", "m", "g", "r", "'">>) @@
  ("[WinError 2] The system cannot find the file specified" :> <<"[", "W", "i", "n", "E", "r", "r", "o", "r", " ", "2", "]", " ", "T", "h", "e", " ", "s", "y", "s", "t", "e", "m", " ", "c", "a", "n", "n", "o", "t", " ", "f", "i", "n", "d", " ", "t", "h", "e", " ", "f", "i", "l", "e", " ", "s", "p", "e", "c", "i", "f", "i", "e", "d">>) @@
  ("analyze" :> <<"a", "n", "a", "l", "y", "z", "e">>) @@
  ("analyzing" :> <<"a", "n", "a", "l", "y", "z", "i", "n", "g">>) @@
  ("ap-southeast-1" :> <<"a", "p", "-", "s", "o", "u", "t", "h", "e", "a", "s", "t", "-", "1">>) @@
  ("api" :> <<"a", "p", "i">>) @@
  ("apply" :> <<"a", "p", "p", "l", "y">>) @@
  ("asia-southeast1" :> <<"a", "s", "i", "a", "-", "s", "o", "u", "t", "h", "e", "a", "s", "t", "1">>) @@
  ("audit" :> <<"a", "u", "d", "i", "t">>) @@
  ("auto-detect" :> <<"a", "u", "t", "o", "-", "d", "e", "t", "e", "c", "t">>) @@
  ("aws" :> <<"a", "w", "s">>) @@
  ("azure" :> <<"a", "z", "u", "r", "e">>) @@
  ("backup" :> <<"b", "a", "c", "k", "u", "p">>) @@
  ("cannot find the file" :> <<"c", "a", "n", "n", "o", "t", " ", "f", "i", "n", "d", " ", "t", "h", "e", " ", "f", "i", "l", "e">>) @@
  ("cleanup" :> <<"c", "l", "e", "a", "n", "u", "p">>) @@
  ("cloudformation" :> <<"c", "l", "o", "u", "d", "f", "o", "r", "m", "a", "t", "i", "o", "n">>) @@
  ("compare" :> <<"c", "o", "m", "p", "a", "r", "e">>) @@
  ("config" :> <<"c", "o", "n", "f", "i", "g">>) @@
  ("credentials" :> <<"c", "r", "e", "d", "e", "n", "t", "i", "a", "l", "s">>) @@
  ("credentials found" :> <<"c", "r", "e", "d", "e", "n", "t", "i", "a", "l", "s", " ", "f", "o", "u", "n", "d">>) @@
  ("csv" :> <<"c", "s", "v">>) @@
  ("dashboard" :> <<"d", "a", "s", "h", "b", "o", "a", "r", "d">>) @@
  ("debug" :> <<"d", "e", "b", "u", "g">>) @@
  ("digitalocean" :> <<"d", "i", "g", "i", "t", "a", "l", "o", "c", "e", "a", "n">>) @@
  ("discover" :> <<"d", "i", "s", "c", "o", "v", "e", "r">>) @@
  ("discovering" :> <<"d", "i", "s", "c", "o", "v", "e", "r", "i", "n", "g">>) @@
  ("division by zero" :> <<"d", "i", "v", "i", "s", "i", "o", "n", " ", "b", "y", " ", "z", "e", "r", "o">>) @@
  ("drift" :> <<"d", "r", "i", "f", "t">>) @@
  ("drift_report.json" :> <<"d", "r", "i", "f", "t", "_", "r", "e", "p", "o", "r", "t", ".", "j", "s", "o", "n">>) @@
  ("driftmgr" :> <<"d", "r", "i", "f", "t", "m", "g", "r">>) @@
  ("driftmgr not available" :> <<"d", "r", "i", "f", "t", "m", "g", "r", " ", "n", "o", "t", " ", "a", "v", "a", "i", "l", "a", "b", "l", "e">>) @@
  ("dry-run" :> <<"d", "r", "y", "-", "r", "u", "n">>) @@
  ("eastus" :> <<"e", "a", "s", "t", "u", "s">>) @@
  ("error" :> <<"e", "r", "r", "o", "r">>) @@
  ("eu-west-1" :> <<"e", "u", "-", "w", "e", "s", "t", "-", "1">>) @@
  ("europe-west1" :> <<"e", "u", "r", "o", "p", "e", "-", "w", "e", "s", "t", "1">>) @@
  ("export" :> <<"e", "x", "p", "o", "r", "t">>) @@
  ("file not found" :> <<"f", "i", "l", "e", " ", "n", "o", "t", " ", "f", "o", "u", "n", "d">>) @@
  ("found" :> <<"f", "o", "u", "n", "d">>) @@
  ("gcp" :> <<"g", "c", "p">>) @@
  ("generate" :> <<"g", "e", "n", "e", "r", "a", "t", "e">>) @@
  ("health" :> <<"h", "e", "a", "l", "t", "h">>) @@
  ("help" :> <<"h", "e", "l", "p">>) @@
  ("high" :> <<"h", "i", "g", "h">>) @@
  ("history" :> <<"h", "i", "s", "t", "o", "r", "y">>) @@
  ("html" :> <<"h", "t", "m", "l">>) @@
  ("import" :> <<"i", "m", "p", "o", "r", "t">>) @@
  ("info" :> <<"i", "n", "f", "o">>) @@
  ("invalid" :> <<"i", "n", "v", "a", "l", "i", "d">>) @@
  ("invalid-command" :> <<"i", "n", "v", "a", "l", "i", "d", "-", "c", "o", "m", "m", "a", "n", "d">>) @@
  ("invalid-provider" :> <<"i", "n", "v", "a", "l", "i", "d", "-", "p", "r", "o", "v", "i", "d", "e", "r">>) @@
  ("invalid-region" :> <<"i", "n", "v", "a", "l", "i", "d", "-", "r", "e", "g", "i", "o", "n">>) @@
  ("json" :> <<"j", "s", "o", "n">>) @@
  ("list" :> <<"l", "i", "s", "t">>) @@
  ("localhost" :> <<"l", "o", "c", "a", "l", "h", "o", "s", "t">>) @@
  ("lon1" :> <<"l", "o", "n", "1">>) @@
  ("low" :> <<"l", "o", "w">>) @@
  ("medium" :> <<"m", "e", "d", "i", "u", "m">>) @@
  ("migrate" :> <<"m", "i", "g", "r", "a", "t", "e">>) @@
  ("monitor" :> <<"m", "o", "n", "i", "t", "o", "r">>) @@
  ("monitoring" :> <<"m", "o", "n", "i", "t", "o", "r", "i", "n", "g">>) @@
  ("northeurope" :> <<"n", "o", "r", "t", "h", "e", "u", "r", "o", "p", "e">>) @@
  ("nyc1" :> <<"n", "y", "c", "1">>) @@
  ("pdf" :> <<"p", "d", "f">>) @@
  ("plugin" :> <<"p", "l", "u", "g", "i", "n">>) @@
  ("remediate" :> <<"r", "e", "m", "e", "d", "i", "a", "t", "e">>) @@
  ("remediating" :> <<"r", "e", "m", "e", "d", "i", "a", "t", "i", "n", "g">>) @@
  ("remediation" :> <<"r", "e", "m", "e", "d", "i", "a", "t", "i", "o", "n">>) @@
  ("report" :> <<"r", "e", "p", "o", "r", "t">>) @@
  ("resources" :> <<"r", "e", "s", "o", "u", "r", "c", "e", "s">>) @@
  ("restore" :> <<"r", "e", "s", "t", "o", "r", "e">>) @@
  ("schedule" :> <<"s", "c", "h", "e", "d", "u", "l", "e">>) @@
  ("setup" :> <<"s", "e", "t", "u", "p">>) @@
  ("sfo2" :> <<"s", "f", "o", "2">>) @@
  ("sgp1" :> <<"s", "g", "p", "1">>) @@
  ("southeastasia" :> <<"s", "o", "u", "t", "h", "e", "a", "s", "t", "a", "s", "i", "a">>) @@
  ("state" :> <<"s", "t", "a", "t", "e">>) @@
  ("state_analysis.json" :> <<"s", "t", "a", "t", "e", "_", "a", "n", "a", "l", "y", "s", "i", "s", ".", "j", "s", "o", "n">>) @@
  ("state_comparison.json" :> <<"s", "t", "a", "t", "e", "_", "c", "o", "m", "p", "a", "r", "i", "s", "o", "n", ".", "j", "s", "o", "n">>) @@
  ("state_report.json" :> <<"s", "t", "a", "t", "e", "_", "r", "e", "p", "o", "r", "t", ".", "j", "s", "o", "n">>) @@
  ("status" :> <<"s", "t", "a", "t", "u", "s">>) @@
  ("sync" :> <<"s", "y", "n", "c">>) @@
  ("table" :> <<"t", "a", "b", "l", "e">>) @@
  ("terraform" :> <<"t", "e", "r", "r", "a", "f", "o", "r", "m">>) @@
  ("troubleshoot" :> <<"t", "r", "o", "u", "b", "l", "e", "s", "h", "o", "o", "t">>) @@
  ("unknown command" :> <<"u", "n", "k", "n", "o", "w", "n", " ", "c", "o", "m", "m", "a", "n", "d">>) @@
  ("us-central1" :> <<"u", "s", "-", "c", "e", "n", "t", "r", "a", "l", "1">>) @@
  ("us-east-1" :> <<"u", "s", "-", "e", "a", "s", "t", "-", "1">>) @@
  ("us-west-2" :> <<"u", "s", "-", "w", "e", "s", "t", "-", "2">>) @@
  ("usage" :> <<"u", "s", "a", "g", "e">>) @@
  ("validate" :> <<"v", "a", "l", "i", "d", "a", "t", "e">>) @@
  ("warning: using default profile" :> <<"w", "a", "r", "n", "i", "n", "g", ":", " ", "u", "s", "i", "n", "g", " ", "d", "e", "f", "a", "u", "l", "t", " ", "p", "r", "o", "f", "i", "l", "e">>) @@
  ("webhook" :> <<"w", "e", "b", "h", "o", "o", "k">>) @@
  ("westus2" :> <<"w", "e", "s", "t", "u", "s", "2">>)

\* str.lower() on one character (ASCII letters)
LowerChar(c) ==
  CASE c = "A" -> "a" [] c = "B" -> "b" [] c = "C" -> "c" [] c = "D" -> "d"
    [] c = "E" -> "e" [] c = "F" -> "f" [] c = "G" -> "g" [] c = "H" -> "h"
    [] c = "I" -> "i" [] c = "J" -> "j" [] c = "K" -> "k" [] c = "L" -> "l"
    [] c = "M" -> "m" [] c = "N" -> "n" [] c = "O" -> "o" [] c = "P" -> "p"
    [] c = "Q" -> "q" [] c = "R" -> "r" [] c = "S" -> "s" [] c = "T" -> "t"
    [] c = "U" -> "u" [] c = "V" -> "v" [] c = "W" -> "w" [] c = "X" -> "x"
    [] c = "Y" -> "y" [] c = "Z" -> "z" [] OTHER -> c

\* the characters of a str given as a tuple of literal fragments
RECURSIVE Str(_)
Str(text) ==
  IF text = <<>> THEN <<>> ELSE Chars[Head(text)] \o Str(Tail(text))

\* s.lower(), on characters
Lower(chars) == [i \in 1..Len(chars) |-> LowerChar(chars[i])]

\* needle in hay, on characters
Contains(hay, needle) ==
  \E i \in 0..(Len(hay) - Len(needle)) :
    \A j \in 1..Len(needle) : hay[i + j] = needle[j]

\* 'literal' in hay
In(literal, hay) == Contains(hay, Chars[literal])

\* ' '.join(command)
RECURSIVE Join(_)
Join(command) ==
  IF command = <<>> THEN <<>>
  ELSE IF Len(command) = 1 THEN <<command[1]>>
  ELSE <<command[1], " ">> \o Join(Tail(command))

-----------------------------------------------------------------------------
(* The phase tables *)

\* commands, lines 562-566
credential_commands ==
  << <<"driftmgr", "credentials", "auto-detect">>,
     <<"driftmgr", "credentials", "list">>,
     <<"driftmgr", "credentials", "help">> >>

\* state_file_commands, lines 585-709
state_file_commands ==
  << <<"driftmgr", "state", "discover">>,
     <<"driftmgr", "state", "discover", "--recursive">>,
     <<"driftmgr", "state", "discover", "--pattern", "*.tfstate">>,
     <<"driftmgr", "state", "discover", "--pattern", "*.tfstate.backup">>,
     <<"driftmgr", "state", "discover", "--directory", ".">>,
     <<"driftmgr", "state", "discover", "--directory", "./terraform">>,
     <<"driftmgr", "state", "discover", "--directory", "./states">>,
     <<"driftmgr", "state", "analyze">>,
     <<"driftmgr", "state", "analyze", "--format", "json">>,
     <<"driftmgr", "state", "analyze", "--format", "table">>,
     <<"driftmgr", "state", "analyze", "--output", "state_analysis.json">>,
     <<"driftmgr", "state", "analyze", "--validate">>,
     <<"driftmgr", "state", "analyze", "--check-consistency">>,
     <<"driftmgr", "state", "validate">>,
     <<"driftmgr", "state", "validate", "--strict">>,
     <<"driftmgr", "state", "validate", "--check-resources">>,
     <<"driftmgr", "state", "validate", "--check-modules">>,
     <<"driftmgr", "state", "validate", "--check-outputs">>,
     <<"driftmgr", "state", "compare">>,
     <<"driftmgr", "state", "compare", "--live">>,
     <<"driftmgr", "state", "compare", "--provider", "aws">>,
     <<"driftmgr", "state", "compare", "--provider", "azure">>,
     <<"driftmgr", "state", "compare", "--region", "us-east-1">>,
     <<"driftmgr", "state", "compare", "--output", "state_comparison.json">>,
     <<"driftmgr", "state", "list">>,
     <<"driftmgr", "state", "info">>,
     <<"driftmgr", "state", "backup">>,
     <<"driftmgr", "state", "restore">>,
     <<"driftmgr", "state", "cleanup">>,
     <<"driftmgr", "state", "migrate">>,
     <<"driftmgr", "state", "import">>,
     <<"driftmgr", "state", "export">>,
     <<"driftmgr", "state", "export", "--format", "json">>,
     <<"driftmgr", "state", "export", "--format", "terraform">>,
     <<"driftmgr", "state", "export", "--format", "cloudformation">>,
     <<"driftmgr", "state", "drift">>,
     <<"driftmgr", "state", "drift", "--detect">>,
     <<"driftmgr", "state", "drift", "--analyze">>,
     <<"driftmgr", "state", "drift", "--report">>,
     <<"driftmgr", "state", "drift", "--severity", "high">>,
     <<"driftmgr", "state", "drift", "--severity", "medium">>,
     <<"driftmgr", "state", "drift", "--severity", "low">>,
     <<"driftmgr", "state", "sync">>,
     <<"driftmgr", "state", "sync", "--force">>,
     <<"driftmgr", "state", "sync", "--dry-run">>,
     <<"driftmgr", "state", "sync", "--provider", "aws">>,
     <<"driftmgr", "state", "sync", "--provider", "azure">>,
     <<"driftmgr", "state", "health">>,
     <<"driftmgr", "state", "health", "--check">>,
     <<"driftmgr", "state", "health", "--report">>,
     <<"driftmgr", "state", "health", "--fix">>,
     <<"driftmgr", "state", "monitor">>,
     <<"driftmgr", "state", "monitor", "--start">>,
     <<"driftmgr", "state", "monitor", "--stop">>,
     <<"driftmgr", "state", "monitor", "--status">>,
     <<"driftmgr", "state", "monitor", "--watch">>,
     <<"driftmgr", "state", "report">>,
     <<"driftmgr", "state", "report", "--format", "json">>,
     <<"driftmgr", "state", "report", "--format", "html">>,
     <<"driftmgr", "state", "report", "--format", "pdf">>,
     <<"driftmgr", "state", "report", "--output", "state_report.json">>,
     <<"driftmgr", "state", "report", "--include-resources">>,
     <<"driftmgr", "state", "report", "--include-drift">>,
     <<"driftmgr", "state", "report", "--include-health">>,
     <<"driftmgr", "state", "history">>,
     <<"driftmgr", "state", "history", "--days", "7">>,
     <<"driftmgr", "state", "history", "--days", "30">>,
     <<"driftmgr", "state", "audit">>,
     <<"driftmgr", "state", "audit", "--compliance">>,
     <<"driftmgr", "state", "audit", "--security">>,
     <<"driftmgr", "state", "debug">>,
     <<"driftmgr", "state", "debug", "--verbose">>,
     <<"driftmgr", "state", "debug", "--show-details">>,
     <<"driftmgr", "state", "troubleshoot">>,
     <<"driftmgr", "state", "troubleshoot", "--fix">>,
     <<"driftmgr", "state", "config">>,
     <<"driftmgr", "state", "config", "--show">>,
     <<"driftmgr", "state", "config", "--set">>,
     <<"driftmgr", "state", "config", "--reset">>,
     <<"driftmgr", "state", "help">>,
     <<"driftmgr", "state", "help", "discover">>,
     <<"driftmgr", "state", "help", "analyze">>,
     <<"driftmgr", "state", "help", "validate">>,
     <<"driftmgr", "state", "help", "compare">>,
     <<"driftmgr", "state", "help", "drift">>,
     <<"driftmgr", "state", "help", "sync">>,
     <<"driftmgr", "state", "help", "health">>,
     <<"driftmgr", "state", "help", "monitor">>,
     <<"driftmgr", "state", "help", "report">>,
     <<"driftmgr", "state", "help", "history">>,
     <<"driftmgr", "state", "help", "audit">>,
     <<"driftmgr", "state", "help", "debug">>,
     <<"driftmgr", "state", "help", "troubleshoot">>,
     <<"driftmgr", "state", "help", "config">> >>

\* analysis_commands, lines 778-788
analysis_commands ==
  << <<"driftmgr", "analyze", "--provider", "aws">>,
     <<"driftmgr", "analyze", "--provider", "azure">>,
     <<"driftmgr", "analyze", "--all-providers">>,
     <<"driftmgr", "analyze", "--format", "json">>,
     <<"driftmgr", "analyze", "--format", "table">>,
     <<"driftmgr", "analyze", "--output", "drift_report.json">>,
     <<"driftmgr", "analyze", "--severity", "high">>,
     <<"driftmgr", "analyze", "--severity", "medium">>,
     <<"driftmgr", "analyze", "--severity", "low">> >>

\* monitoring_commands, lines 806-815
monitoring_commands ==
  << <<"driftmgr", "monitor", "--start">>,
     <<"driftmgr", "monitor", "--status">>,
     <<"driftmgr", "monitor", "--stop">>,
     <<"driftmgr", "dashboard", "--start">>,
     <<"driftmgr", "dashboard", "--port", "8080">>,
     <<"driftmgr", "dashboard", "--host", "localhost">>,
     <<"driftmgr", "status">>,
     <<"driftmgr", "health">> >>

\* remediation_commands, lines 833-842
remediation_commands ==
  << <<"driftmgr", "remediate", "--dry-run">>,
     <<"driftmgr", "remediate", "--auto">>,
     <<"driftmgr", "remediate", "--interactive">>,
     <<"driftmgr", "remediate", "--provider", "aws">>,
     <<"driftmgr", "remediate", "--provider", "azure">>,
     <<"driftmgr", "generate", "--terraform">>,
     <<"driftmgr", "generate", "--cloudformation">>,
     <<"driftmgr", "apply", "--plan">> >>

\* config_commands, lines 860-869
config_commands ==
  << <<"driftmgr", "config", "--show">>,
     <<"driftmgr", "config", "--init">>,
     <<"driftmgr", "config", "--validate">>,
     <<"driftmgr", "config", "--backup">>,
     <<"driftmgr", "config", "--restore">>,
     <<"driftmgr", "setup", "--interactive">>,
     <<"driftmgr", "setup", "--auto">>,
     <<"driftmgr", "validate", "--config">> >>

\* reporting_commands, lines 887-898
reporting_commands ==
  << <<"driftmgr", "report", "--format", "json">>,
     <<"driftmgr", "report", "--format", "csv">>,
     <<"driftmgr", "report", "--format", "html">>,
     <<"driftmgr", "report", "--format", "pdf">>,
     <<"driftmgr", "export", "--type", "resources">>,
     <<"driftmgr", "export", "--type", "drift">>,
     <<"driftmgr", "export", "--type", "remediation">>,
     <<"driftmgr", "history", "--days", "7">>,
     <<"driftmgr", "history", "--days", "30">>,
     <<"driftmgr", "audit", "--compliance">> >>

\* advanced_commands, lines 916-931
advanced_commands ==
  << <<"driftmgr", "plugin", "--list">>,
     <<"driftmgr", "plugin", "--install">>,
     <<"driftmgr", "plugin", "--update">>,
     <<"driftmgr", "api", "--start">>,
     <<"driftmgr", "api", "--stop">>,
     <<"driftmgr", "api", "--status">>,
     <<"driftmgr", "webhook", "--test">>,
     <<"driftmgr", "webhook", "--list">>,
     <<"driftmgr", "schedule", "--list">>,
     <<"driftmgr", "schedule", "--create">>,
     <<"driftmgr", "backup", "--create">>,
     <<"driftmgr", "backup", "--restore">>,
     <<"driftmgr", "migrate", "--state">>,
     <<"driftmgr", "sync", "--force">> >>

\* error_commands, lines 949-966
error_commands ==
  << <<"driftmgr", "discover", "invalid-provider">>,
     <<"driftmgr", "discover", "aws", "invalid-region">>,
     <<"driftmgr", "analyze", "--invalid-flag">>,
     <<"driftmgr", "remediate", "--invalid-option">>,
     <<"driftmgr", "config", "--invalid-path">>,
     <<"driftmgr", "invalid-command">>,
     <<"driftmgr", "discover", "aws", "--invalid-flag">>,
     <<"driftmgr", "analyze", "--provider", "invalid">>,
     <<"driftmgr", "monitor", "--invalid-port">>,
     <<"driftmgr", "dashboard", "--invalid-host">>,
     <<"driftmgr", "state", "discover", "--invalid-pattern">>,
     <<"driftmgr", "state", "analyze", "--invalid-format">>,
     <<"driftmgr", "state", "validate", "--invalid-option">>,
     <<"driftmgr", "state", "compare", "--invalid-provider">>,
     <<"driftmgr", "state", "drift", "--invalid-severity">> >>

\* interactive_commands, lines 985-1003
interactive_commands ==
  << <<"driftmgr", "discover", "aws", "us-east-1">>,
     <<"driftmgr", "discover", "azure", "eastus">>,
     <<"driftmgr", "analyze", "--provider", "aws">>,
     <<"driftmgr", "monitor", "--start">>,
     <<"driftmgr", "dashboard", "--port", "8080">>,
     <<"driftmgr", "remediate", "--dry-run">>,
     <<"driftmgr", "report", "--format", "json">>,
     <<"driftmgr", "config", "--show">>,
     <<"driftmgr", "state", "discover">>,
     <<"driftmgr", "state", "analyze">>,
     <<"driftmgr", "state", "validate">>,
     <<"driftmgr", "state", "compare", "--live">>,
     <<"driftmgr", "state", "drift", "--detect">>,
     <<"driftmgr", "state", "sync", "--dry-run">>,
     <<"driftmgr", "state", "health", "--check">>,
     <<"driftmgr", "state", "report", "--format", "json">> >>
-----------------------------------------------------------------------------
(* validate_command_result *)

\* the validation dict as first built
NewValidation(command, result) ==
  [command |-> command, success |-> result.success, test_passed |-> FALSE,
   test_result |-> "FAILED", validation_details |-> <<>>,
   expected_behavior |-> "", actual_behavior |-> ""]

\* one branch of the if/elif chain: the expected behaviour, then the PASS test
Judge(command, result, expected, pass, okDetail, failDetail) ==
  IF pass
  THEN [NewValidation(command, result) EXCEPT
          !.expected_behavior = expected, !.test_passed = TRUE,
          !.test_result = "PASSED", !.validation_details = <<okDetail>>]
  ELSE [NewValidation(command, result) EXCEPT
          !.expected_behavior = expected, !.validation_details = <<failDetail>>]

\* the early return for a missing driftmgr
MissingTool(command, result) ==
  [NewValidation(command, result) EXCEPT
     !.expected_behavior = "Should handle missing driftmgr gracefully",
     !.test_passed = TRUE, !.test_result = "PASSED",
     !.validation_details = <<"Command handled missing driftmgr gracefully">>,
     !.actual_behavior = "Skipped command due to missing driftmgr"]

\* the early return for a missing executable
MissingExecutable(command, result) ==
  [NewValidation(command, result) EXCEPT
     !.expected_behavior = "Should handle missing executable gracefully",
     !.test_passed = TRUE, !.test_result = "PASSED",
     !.validation_details = <<"Command handled missing executable gracefully">>,
     !.actual_behavior = "Executable not found - handled appropriately"]

\* the if/elif chain; cmd: the characters of command, out: those of
\* result['stdout'].lower()
Dispatch(command, result, cmd, out) ==
  IF In("credentials", cmd) THEN
    Judge(command, result, "Should detect or list credentials",
          result.success \/ In("credentials found", out) \/ In("help", out),
          "Credential command executed successfully",
          "Credential command failed or returned unexpected output")
  ELSE IF In("state", cmd) THEN
    Judge(command, result, "Should handle state file operations",
          result.success \/ In("help", out) \/ In("usage", out),
          "State command executed successfully",
          "State command failed or returned unexpected output")
  ELSE IF In("discover", cmd) THEN
    Judge(command, result, "Should attempt resource discovery",
          result.success \/ In("discovering", out) \/ In("found", out),
          "Discovery command executed successfully",
          "Discovery command failed or returned unexpected output")
  ELSE IF In("analyze", cmd) THEN
    Judge(command, result, "Should perform drift analysis",
          result.success \/ In("analyzing", out) \/ In("drift", out),
          "Analysis command executed successfully",
          "Analysis command failed or returned unexpected output")
  ELSE IF In("monitor", cmd) \/ In("dashboard", cmd) THEN
    Judge(command, result, "Should handle monitoring operations",
          result.success \/ In("monitoring", out) \/ In("dashboard", out),
          "Monitoring command executed successfully",
          "Monitoring command failed or returned unexpected output")
  ELSE IF In("remediate", cmd) THEN
    Judge(command, result, "Should handle remediation operations",
          result.success \/ In("remediating", out) \/ In("dry-run", out),
          "Remediation command executed successfully",
          "Remediation command failed or returned unexpected output")
  ELSE IF In("config", cmd) \/ In("setup", cmd) THEN
    Judge(command, result, "Should handle configuration operations",
          result.success \/ In("config", out) \/ In("setup", out),
          "Configuration command executed successfully",
          "Configuration command failed or returned unexpected output")
  ELSE IF In("report", cmd) \/ In("export", cmd) THEN
    Judge(command, result, "Should handle reporting operations",
          result.success \/ In("report", out) \/ In("export", out),
          "Reporting command executed successfully",
          "Reporting command failed or returned unexpected output")
  ELSE IF In("plugin", cmd) \/ In("api", cmd) \/ In("webhook", cmd) THEN
    Judge(command, result, "Should handle advanced features",
          result.success \/ In("plugin", out) \/ In("api", out),
          "Advanced feature command executed successfully",
          "Advanced feature command failed or returned unexpected output")
  ELSE IF In("invalid", cmd) \/ In("error", cmd) THEN
    Judge(command, result, "Should handle errors gracefully",
          ~result.success /\ (result.stderr # <<>> \/ In("error", out)),
          "Error handling worked as expected",
          "Error handling did not work as expected")
  ELSE
    Judge(command, result, "Should execute command successfully",
          result.success,
          "Command executed successfully",
          "Command failed to execute")

\* "Define expected behaviors for different command types"
ExpectedBehavior(command, result) ==
  Dispatch(command, result, Str(command), Lower(Str(result.stdout)))

\* a float kept exact: num / den
Ratio(num, den) == [num |-> num, den |-> den]

\* the new entry of feature_results
NewFeature == [total |-> 0, passed |-> 0, failed |-> 0, success_rate |-> Ratio(0, 1)]

\* an entry whose rate is left as it was before the counters changed
CountFeature_stale_rate(entry, test_passed) ==
  [total |-> entry.total + 1,
   passed |-> IF test_passed THEN entry.passed + 1 ELSE entry.passed,
   failed |-> IF test_passed THEN entry.failed ELSE entry.failed + 1,
   success_rate |-> entry.success_rate]

\* the entry of feature after one more test of that feature
CountFeature(entry, test_passed) ==
  LET total  == entry.total + 1
      passed == IF test_passed THEN entry.passed + 1 ELSE entry.passed
      failed == IF test_passed THEN entry.failed ELSE entry.failed + 1
  IN  [total |-> total, passed |-> passed, failed |-> failed,
       success_rate |-> Ratio(passed * 100, total)]

\* a summary update that counts the test and its feature but forgets the
\* session's failed counter
UpdateSummary_failures_uncounted(ts, feature, test_passed) ==
  LET fr    == ts.feature_results
      entry == IF feature \in DOMAIN fr THEN fr[feature] ELSE NewFeature
  IN  [total_tests   |-> ts.total_tests + 1,
       passed_tests  |-> IF test_passed THEN ts.passed_tests + 1 ELSE ts.passed_tests,
       failed_tests  |-> ts.failed_tests,
       skipped_tests |-> ts.skipped_tests,
       feature_results |->
         [f \in DOMAIN fr \cup {feature} |->
            IF f = feature THEN CountFeature(entry, test_passed) ELSE fr[f]]]

\* a summary update that counts the test for the session only
UpdateSummary_session_only(ts, feature, test_passed) ==
  [ts EXCEPT !.total_tests = @ + 1,
             !.passed_tests = IF test_passed THEN @ + 1 ELSE @,
             !.failed_tests = IF test_passed THEN @ ELSE @ + 1]

\* "Update test summary" and "Update feature results"
UpdateSummary(ts, feature, test_passed) ==
  LET fr    == ts.feature_results
      entry == IF feature \in DOMAIN fr THEN fr[feature] ELSE NewFeature
  IN  [total_tests   |-> ts.total_tests + 1,
       passed_tests  |-> IF test_passed THEN ts.passed_tests + 1 ELSE ts.passed_tests,
       failed_tests  |-> IF test_passed THEN ts.failed_tests ELSE ts.failed_tests + 1,
       skipped_tests |-> ts.skipped_tests,
       feature_results |->
         [f \in DOMAIN fr \cup {feature} |->
            IF f = feature THEN CountFeature(entry, test_passed) ELSE fr[f]]]

\* a validation that lets anything pass once the session has counted a test
Counted_consults_counters(ts, feature, validation) ==
  [validation |-> [validation EXCEPT !.test_passed = @ \/ ts.total_tests > 0],
   test_summary |-> UpdateSummary(ts, feature, validation.test_passed \/ ts.total_tests > 0)]

\* the end of validate_command_result: count the verdict, return the validation
Counted(ts, feature, validation) ==
  [validation |-> validation,
   test_summary |-> UpdateSummary(ts, feature, validation.test_passed)]

\* validate_command_result from the two early returns on; err: the characters
\* of result['stderr'].lower()
EarlyReturns(ts, command, result, feature, err) ==
  IF In("driftmgr not available", err)
  THEN [validation |-> MissingTool(command, result), test_summary |-> ts]
  ELSE IF In("file not found", err) \/ In("cannot find the file", err)
  THEN [validation |-> MissingExecutable(command, result), test_summary |-> ts]
  ELSE Counted(ts, feature, ExpectedBehavior(command, result))

\* validate_command_result: the validation it returns and the summary it leaves
validate_command_result(ts, command, result, feature) ==
  EarlyReturns(ts, command, result, feature, Lower(Str(result.stderr)))

-----------------------------------------------------------------------------
(* Python floats: IEEE 754 binary64, round to nearest, ties to even *)

\* the bits of a binary64 significand
Precision == 53

\* a float is bits * 2^exp, the bits most significant first
Float(bits, exp) == [bits |-> bits, exp |-> exp]
Zero == Float(<<>>, 0)
One  == Float(<<1>>, 0)

\* the integer a sequence of bits writes
RECURSIVE BitsValue(_, _, _)
BitsValue(bits, i, acc) ==
  IF i > Len(bits) THEN acc ELSE BitsValue(bits, i + 1, 2 * acc + bits[i])

\* the bits of a non-negative integer
RECURSIVE Binary(_, _)
Binary(n, acc) == IF n = 0 THEN acc ELSE Binary(n \div 2, <<n % 2>> \o acc)

\* bits plus one
RECURSIVE Incremented(_, _, _)
Incremented(bits, i, acc) ==
  IF i = 0 THEN <<1>> \o acc
  ELSE IF bits[i] = 0 THEN SubSeq(bits, 1, i - 1) \o <<1>> \o acc
  ELSE Incremented(bits, i - 1, <<0>> \o acc)

\* rounding to the nearest float: keep Precision bits, go up when the dropped
\* part (tail, or more when sticky) is above one half, to even when it is one half
Rounded(kept, exp, tail, sticky) ==
  LET half == tail # <<>> /\ tail[1] = 1
      more == sticky \/ \E j \in 2..Len(tail) : tail[j] = 1
      up   == half /\ (more \/ kept[Len(kept)] = 1)
  IN  Float(IF up THEN Incremented(kept, Len(kept), <<>>) ELSE kept, exp + Len(tail))

\* n more bits of a quotient by long division: r is the remainder so far
RECURSIVE QuotientBits(_, _, _, _)
QuotientBits(r, d, n, acc) ==
  IF n = 0 THEN [bits |-> acc, rem |-> r]
  ELSE IF 2 * r >= d THEN QuotientBits(2 * r - d, d, n - 1, Append(acc, 1))
  ELSE QuotientBits(2 * r, d, n - 1, Append(acc, 0))

\* the scaling that brings a / b into [1, 2), for a > 0 and b > 0: the
\* quotient is (a / b) * 2^-k
RECURSIVE Shift(_, _, _)
Shift(a, b, k) ==
  IF a < b THEN Shift(2 * a, b, k + 1)
  ELSE IF a >= 2 * b THEN Shift(a, 2 * b, k - 1)
  ELSE [a |-> a, b |-> b, k |-> k]

\* the quotient from its Precision + 1 first bits and what is left after them
Quotient(q, k) ==
  Rounded(SubSeq(q.bits, 1, Precision), -k - Precision, <<q.bits[Precision + 1]>>, q.rem > 0)

\* the quotient of a scaled pair
Divided(s) == Quotient(QuotientBits(s.a - s.b, s.b, Precision, <<1>>), s.k)

\* a / b for integers a >= 0 and b > 0
float_div(a, b) == IF a = 0 THEN Zero ELSE Divided(Shift(a, b, 0))

\* the bits of bits * c for a small integer c, from the last bit to the first
RECURSIVE TimesBits(_, _, _, _, _)
TimesBits(bits, c, i, carry, acc) ==
  IF i = 0 THEN Binary(carry, acc)
  ELSE TimesBits(bits, c, i - 1, (bits[i] * c + carry) \div 2,
                 <<(bits[i] * c + carry) % 2>> \o acc)

\* a product from its exact bits
Product(bits, exp) ==
  IF Len(bits) <= Precision THEN Float(bits, exp)
  ELSE Rounded(SubSeq(bits, 1, Precision), exp,
               SubSeq(bits, Precision + 1, Len(bits)), FALSE)

\* x * c for a float x >= 0 and a small integer c > 0
float_mul(x, c) ==
  IF x = Zero THEN Zero ELSE Product(TimesBits(x.bits, c, Len(x.bits), 0, <<>>), x.exp)

\* int(x) for a float 0 <= x < 2^31
int(x) ==
  IF x.exp >= 0 THEN BitsValue(x.bits, 1, 0) * (2 ^ x.exp)
  ELSE BitsValue(SubSeq(x.bits, 1, Len(x.bits) + x.exp), 1, 0)

\* min(step / self.total_steps, 1.0)
progress_of(step, total_steps) ==
  IF step >= total_steps THEN One ELSE float_div(step, total_steps)

-----------------------------------------------------------------------------
(* LoadingBar and SimulationTUI *)

\* Python's None, where the other values are dicts or objects
None == [none |-> TRUE]

\* LoadingBar.__init__
NewLoadingBar(total_steps) ==
  [total_steps |-> total_steps, current_step |-> 0, width |-> 50,
   current_step_title |-> [text |-> ""], rendered |-> None]

\* the status line LoadingBar.update writes for a progress
StatusLine(progress, width, step_title) ==
  [percentage   |-> int(float_mul(progress, 100)),
   filled_width |-> int(float_mul(progress, width)),
   eta          |-> IF progress = Zero THEN "--:--" ELSE "time",
   step_title   |-> step_title]

\* LoadingBar.update: the fields it sets and the status line it writes
LoadingBar_update(bar, step, step_title) ==
  [bar EXCEPT
     !.current_step = step,
     !.current_step_title = step_title,
     !.rendered = StatusLine(progress_of(step, bar.total_steps), bar.width, step_title)]

\* SimulationTUI.__init__
NewTUI ==
  [loading_bar |-> None, current_feature |-> "", total_commands |-> 0,
   completed_commands |-> 0]

\* the steps initialize_simulation gives the loading bar
feature_steps ==
  << "Credential Auto-Detection", "State File Detection", "Resource Discovery",
     "Drift Analysis", "Monitoring & Dashboard", "Remediation", "Configuration",
     "Reporting", "Advanced Features", "Error Handling", "Interactive Mode" >>

\* SimulationTUI.initialize_simulation
initialize_simulation(t, total_commands) ==
  [t EXCEPT !.total_commands = total_commands, !.completed_commands = 0,
            !.loading_bar = NewLoadingBar(Len(feature_steps))]

\* SimulationTUI.update_feature_progress
update_feature_progress(t, feature_index, feature_name) ==
  IF t.loading_bar = None THEN t
  ELSE [t EXCEPT !.current_feature = feature_name,
                 !.loading_bar = LoadingBar_update(t.loading_bar, feature_index,
                                                   [testing |-> feature_name])]

\* SimulationTUI.update_command_progress: the TUI it leaves, and whether it
\* raised (the division by total_commands) with str(e)
update_command_progress(t, command, success) ==
  LET completed == t.completed_commands + 1
      counted   == [t EXCEPT !.completed_commands = completed]
  IN  IF t.loading_bar = None THEN [tui |-> counted, raised |-> FALSE, error |-> <<>>]
      ELSE IF t.total_commands = 0
      THEN [tui |-> counted, raised |-> TRUE, error |-> <<"division by zero">>]
      ELSE [tui |-> [counted EXCEPT !.loading_bar =
                       LoadingBar_update(t.loading_bar,
                                         int(float_mul(float_div(completed, t.total_commands), 100)),
                                         [feature |-> t.current_feature, completed |-> completed,
                                          total |-> t.total_commands])],
            raised |-> FALSE, error |-> <<>>]

-----------------------------------------------------------------------------
(* run_command *)

\* result_data
ResultData(command_str, return_code, stdout, stderr, duration, success) ==
  [command |-> command_str, return_code |-> return_code, stdout |-> stdout,
   stderr |-> stderr, duration |-> duration, success |-> success]

\* the dict returned when the cached probe says the tool is missing
SkipResult(command_str) ==
  ResultData(command_str, -1, <<>>, <<"DriftMgr not available - skipping command">>, 0, FALSE)

\* a timeout dict with the zero duration of the other handlers
TimeoutResult_zero_duration(command_str, timeout) ==
  ResultData(command_str, -1, <<>>, <<"Command timed out">>, 0, FALSE)

\* the dict built by the TimeoutExpired handler
TimeoutResult(command_str, timeout) ==
  ResultData(command_str, -1, <<>>, <<"Command timed out">>, timeout, FALSE)

\* the dict built by the FileNotFoundError handler; e is str(e)
NotFoundResult(command_str, e) ==
  ResultData(command_str, -1, <<>>, <<"Command not found: ">> \o e, 0, FALSE)

\* the dict built by the handler of any other Exception; e is str(e)
ErrorResult(command_str, e) ==
  ResultData(command_str, -1, <<>>, e, 0, FALSE)

\* hasattr(self, '_driftmgr_available') is false
NotSet == [hasattr |-> FALSE]

\* self._driftmgr_available once assigned
Cached(value) == [hasattr |-> TRUE, value |-> value]

\* what one run_command call leaves: the simulator's fields, what it returned
\* (result) or that it raised, and what it did on the way
Outcome(avail, ts, t, result, raised, path, probed, launched, validations, reported) ==
  [avail |-> avail, test_summary |-> ts, tui |-> t, result |-> result,
   raised |-> raised, path |-> path, probed |-> probed, launched |-> launched,
   validations |-> validations, reported |-> reported]

\* an except block that lets its exception go on to the caller
Handled_reraises(avail, data, path, probed, launched, validations, reported, v, u) ==
  Outcome(avail, v.test_summary, u.tui, None, TRUE, path, probed, launched,
          validations \o <<v.validation.test_passed>>, reported \o <<FALSE>>)

\* an except block once it has validated the dict it built (v) and reported
\* False to the TUI (u): return the dict, unless the TUI raised
Handled(avail, data, path, probed, launched, validations, reported, v, u) ==
  Outcome(avail, v.test_summary, u.tui,
          IF u.raised THEN None ELSE data @@ [validation |-> v.validation],
          u.raised, path, probed, launched,
          validations \o <<v.validation.test_passed>>, reported \o <<FALSE>>)

\* the body shared by the three except blocks: validate the built dict, report
\* False to the TUI, return the dict; validations, reported: what the try block
\* had done before raising
Handler(avail, ts, t, data, feature, path, probed, launched, validations, reported) ==
  Handled(avail, data, path, probed, launched, validations, reported,
          validate_command_result(ts, data.command, data, feature),
          update_command_progress(t, data.command, FALSE))

\* a try block that falls into `except Exception` after every report to the TUI
Reported_then_handled(avail, data, feature, path, probed, launched, v, u) ==
  Handler(avail, v.test_summary, u.tui, ErrorResult(data.command, u.error),
          feature, "error", probed, launched,
          <<v.validation.test_passed>>, <<v.validation.test_passed>>)

\* the try block once it has validated result_data (v) and reported the verdict
\* to the TUI (u): return, or go to `except Exception` if the TUI raised
Reported(avail, data, feature, path, probed, launched, v, u) ==
  IF ~u.raised
  THEN Outcome(avail, v.test_summary, u.tui, data @@ [validation |-> v.validation],
               FALSE, path, probed, launched,
               <<v.validation.test_passed>>, <<v.validation.test_passed>>)
  ELSE Handler(avail, v.test_summary, u.tui, ErrorResult(data.command, u.error),
               feature, "error", probed, launched,
               <<v.validation.test_passed>>, <<v.validation.test_passed>>)

\* the try block once result_data is built and validated (v)
Progress(avail, t, data, feature, path, probed, launched, v) ==
  Reported(avail, data, feature, path, probed, launched, v,
           update_command_progress(t, data.command, v.validation.test_passed))

\* the try block from a built result_data on: validate, report the verdict to
\* the TUI, return
Validated(avail, ts, t, data, feature, path, probed, launched) ==
  Progress(avail, t, data, feature, path, probed, launched,
           validate_command_result(ts, data.command, data, feature))

\* `command[0] == 'driftmgr'`
is_driftmgr(command) == command # <<>> /\ command[1] = "driftmgr"

\* a skip test that has lost its `not`
Skipped_inverted(command, available) == is_driftmgr(command) /\ available.value

\* `if command[0] == 'driftmgr' and not self._driftmgr_available`
Skipped(command, available) == is_driftmgr(command) /\ ~available.value

\* run_command(command, timeout, feature) on the simulator's fields avail, ts, t;
\* w is what the world does during the call: the probe's answer and the end of
\* the launch
run_command(avail, ts, t, command, timeout, feature, w) ==
  LET command_str == Join(command)
      probed      == is_driftmgr(command) /\ avail = NotSet
      available   == IF probed THEN Cached(w.probe) ELSE avail
  IN  IF Skipped(command, available)
      THEN Validated(available, ts, t, SkipResult(command_str), feature,
                     "unavailable", probed, FALSE)
      ELSE CASE w.out.kind = "Completed" ->
                  Validated(available, ts, t,
                            ResultData(command_str, w.out.returncode, w.out.stdout,
                                       w.out.stderr, w.out.elapsed, w.out.returncode = 0),
                            feature, "completed", probed, TRUE)
             [] w.out.kind = "TimedOut" ->
                  Handler(available, ts, t, TimeoutResult(command_str, timeout),
                          feature, "timeout", probed, TRUE, <<>>, <<>>)
             [] w.out.kind = "NotFound" ->
                  Handler(available, ts, t, NotFoundResult(command_str, w.out.message),
                          feature, "not_found", probed, TRUE, <<>>, <<>>)
             [] w.out.kind = "Error" ->
                  Handler(available, ts, t, ErrorResult(command_str, w.out.message),
                          feature, "error", probed, TRUE, <<>>, <<>>)

-----------------------------------------------------------------------------
(* The phases of run_full_simulation *)

\* the fallback region lists of load_regions, by provider
FallbackRegions ==
  [aws          |-> <<"us-east-1", "us-west-2", "eu-west-1", "ap-southeast-1">>,
   azure        |-> <<"eastus", "westus2", "northeurope", "southeastasia">>,
   gcp          |-> <<"us-central1", "europe-west1", "asia-southeast1">>,
   digitalocean |-> <<"nyc1", "sfo2", "lon1", "sgp1">>]

\* providers, in the order simulate_discovery_with_random_regions takes them
providers == <<"aws", "azure", "gcp", "digitalocean">>

\* discovery_patterns for one provider and its selected regions
discovery_patterns(provider, selected_regions) ==
  << <<"driftmgr", "discover", provider, selected_regions[1]>>,
     <<"driftmgr", "discover">> \o selected_regions,
     <<"driftmgr", "discover", "--provider", provider, "--region", selected_regions[1]>>,
     <<"driftmgr", "discover", provider, "--all-regions">> >>

\* the commands of the discovery phase; draw[provider] is what random.sample gave
RECURSIVE discovery_commands(_, _, _)
discovery_commands(regions, draw, i) ==
  IF i > Len(providers) THEN <<>>
  ELSE (IF regions[providers[i]] = <<>> THEN <<>>
        ELSE discovery_patterns(providers[i], draw[providers[i]]))
       \o discovery_commands(regions, draw, i + 1)

\* total_commands as run_full_simulation adds it up
TotalCommands == 3 + 94 + 16 + 9 + 8 + 8 + 8 + 10 + 14 + 15 + 16

\* run_command's default timeout
DefaultTimeout == 60

\* the phases in the order run_full_simulation calls them: the feature each
\* passes to run_command, the title it gives the TUI, its timeout, its commands
Phases(regions, draw) ==
  << [feature |-> "credential_auto_detection", title |-> feature_steps[1],
      timeout |-> DefaultTimeout, commands |-> credential_commands],
     [feature |-> "state_file_detection", title |-> feature_steps[2],
      timeout |-> 90, commands |-> state_file_commands],
     [feature |-> "resource_discovery", title |-> feature_steps[3],
      timeout |-> 120, commands |-> discovery_commands(regions, draw, 1)],
     [feature |-> "drift_analysis", title |-> feature_steps[4],
      timeout |-> 90, commands |-> analysis_commands],
     [feature |-> "monitoring", title |-> feature_steps[5],
      timeout |-> DefaultTimeout, commands |-> monitoring_commands],
     [feature |-> "remediation", title |-> feature_steps[6],
      timeout |-> 120, commands |-> remediation_commands],
     [feature |-> "configuration", title |-> feature_steps[7],
      timeout |-> DefaultTimeout, commands |-> config_commands],
     [feature |-> "reporting", title |-> feature_steps[8],
      timeout |-> DefaultTimeout, commands |-> reporting_commands],
     [feature |-> "advanced", title |-> feature_steps[9],
      timeout |-> DefaultTimeout, commands |-> advanced_commands],
     [feature |-> "error_handling", title |-> feature_steps[10],
      timeout |-> DefaultTimeout, commands |-> error_commands],
     [feature |-> "interactive_mode", title |-> feature_steps[11],
      timeout |-> DefaultTimeout, commands |-> interactive_commands] >>

\* the number of phases run_full_simulation calls
NumPhases == Len(feature_steps)

-----------------------------------------------------------------------------
(* generate_simulation_report *)

\* sum(1 for r in results if r['result']['success'])
CountSuccess(results) ==
  Cardinality({i \in DOMAIN results : results[i].result.success})

\* the sum of the durations of results[lo..hi], by halves
RECURSIVE SumBetween(_, _, _)
SumBetween(results, lo, hi) ==
  IF lo > hi THEN 0
  ELSE IF lo = hi THEN results[lo].result.duration
  ELSE SumBetween(results, lo, (lo + hi) \div 2)
       + SumBetween(results, (lo + hi) \div 2 + 1, hi)

\* sum(r['result']['duration'] for r in results)
SumDuration(results) == SumBetween(results, 1, Len(results))

\* the records of one feature, in order
OfFeature(results, feature) == SelectSeq(results, LAMBDA r : r.feature = feature)

\* report['feature_summary']
FeatureSummary(results, ts) ==
  [f \in {results[i].feature : i \in DOMAIN results} |->
     LET mine == OfFeature(results, f) IN
     [total_commands      |-> Len(mine),
      successful_commands |-> CountSuccess(mine),
      failed_commands     |-> Len(mine) - CountSuccess(mine),
      avg_duration        |-> Ratio(SumDuration(mine), Len(mine)),
      total_duration      |-> SumDuration(mine),
      test_success_rate   |-> IF f \in DOMAIN ts.feature_results
                              THEN ts.feature_results[f].success_rate
                              ELSE Ratio(0, 1)]]

\* the report dict
ReportDict(results, ts) ==
  [simulation_info |->
     [total_commands      |-> Len(results),
      duration            |-> SumDuration(results),
      successful_commands |-> CountSuccess(results),
      failed_commands     |-> Len(results) - CountSuccess(results)],
   test_summary         |-> ts,
   overall_success_rate |-> IF ts.total_tests > 0
                            THEN Ratio(ts.passed_tests * 100, ts.total_tests)
                            ELSE Ratio(0, 1),
   feature_summary      |-> FeatureSummary(results, ts),
   detailed_results     |-> results]

\* generate_simulation_report: the report it returns, or that it raised (the
\* file cannot be written; the command success rate divides by zero)
generate_simulation_report(results, ts, disk_ok) ==
  IF ~disk_ok THEN [raised |-> TRUE, report |-> None]
  ELSE IF Len(results) = 0 THEN [raised |-> TRUE, report |-> None]
  ELSE [raised |-> FALSE, report |-> ReportDict(results, ts)]

-----------------------------------------------------------------------------
(* The world outside the harness *)

\* how a launch by subprocess.run ends
Completed(returncode, stdout, stderr) ==
  [kind |-> "Completed", returncode |-> returncode, stdout |-> stdout,
   stderr |-> stderr, elapsed |-> 1, message |-> <<>>]
TimedOut == [kind |-> "TimedOut", returncode |-> 0, stdout |-> <<>>,
             stderr |-> <<>>, elapsed |-> 0, message |-> <<>>]
NotFound(message) == [kind |-> "NotFound", returncode |-> 0, stdout |-> <<>>,
                      stderr |-> <<>>, elapsed |-> 0, message |-> message]
Error(message) == [kind |-> "Error", returncode |-> 0, stdout |-> <<>>,
                   stderr |-> <<>>, elapsed |-> 0, message |-> message]

\* str(FileNotFoundError) on POSIX and on Windows
PosixNotFound   == <<"[Errno 2] No such file or directory: 'driftmgr'">>
WindowsNotFound == <<"[WinError 2] The system cannot find the file specified">>

\* the ends of a launch that the model draws from
LaunchEnds ==
  { Completed(0, <<"Discovered 12 resources">>, <<>>),
    Completed(0, <<"Plugin API ready">>, <<"warning: using default profile">>),
    Completed(1, <<>>, <<>>),
    Completed(1, <<>>, <<"unknown command">>),
    Completed(1, <<"Usage: driftmgr [command] --help">>, <<>>),
    Completed(1, <<"Plugin API ready">>, <<>>),
    Completed(1, <<"Found 3 resources; dry-run report on dashboard, config OK">>, <<>>),
    Completed(1, <<"Error: unknown command">>, <<>>),
    TimedOut,
    NotFound(PosixNotFound),
    NotFound(WindowsNotFound),
    Error(<<"[Errno 13] Permission denied: 'driftmgr'">>) }

\* a tool as one session meets it: what `driftmgr --version` makes the probe
\* answer, and how every launch of it ends
ToolBehaviours ==
  {[probe |-> FALSE, out |-> NotFound(PosixNotFound)],
   [probe |-> FALSE, out |-> Completed(1, <<>>, <<"unknown command">>)]}
  \cup {[probe |-> TRUE, out |-> o] : o \in LaunchEnds}

\* the tool is not installed: the probe and every launch raise FileNotFoundError
Absent(tool) == ~tool.probe /\ tool.out.kind = "NotFound"

\* what random.randint and random.sample give the discovery phase, by provider
Draws ==
  { [p \in DOMAIN FallbackRegions |-> <<FallbackRegions[p][1]>>],
    [p \in DOMAIN FallbackRegions |->
       <<FallbackRegions[p][3], FallbackRegions[p][1], FallbackRegions[p][2]>>] }

-----------------------------------------------------------------------------
(* main and run_full_simulation *)

NoCall ==
  [raised |-> FALSE, result |-> None, path |-> "none", probed |-> FALSE,
   launched |-> FALSE, validations |-> <<>>, reported |-> <<>>,
   command |-> <<>>, feature |-> "", timeout |-> 0]

\* DriftMgrUserSimulator.__init__
NewSummary ==
  [total_tests |-> 0, passed_tests |-> 0, failed_tests |-> 0, skipped_tests |-> 0,
   feature_results |-> <<>>]

Constructed ==
  /\ driftmgr_available = NotSet
  /\ test_summary = NewSummary
  /\ simulation_results = <<>>
  /\ tui = NewTUI
  /\ phase = 0
  /\ phase_commands = <<>>
  /\ idx = 0
  /\ ret = NoCall
  /\ report = None
  /\ probes = 0
  /\ launches = 0
  /\ calls = 0

\* no LoadingBar on its own, no thread but the main one, no comprehensive
\* simulation
Unthreaded ==
  /\ loading_bar = None
  /\ lock = {}
  /\ threads = <<>>
  /\ sys_stdout = <<>>
  /\ user_session = None

Init ==
  /\ pc = "main"
  /\ env \in [tool : ToolBehaviours, draw : Draws]
  /\ Constructed
  /\ Unthreaded

\* the record of a run_command call kept in ret
CallRecord(r, command, timeout, feature) ==
  [raised |-> r.raised, result |-> r.result, path |-> r.path, probed |-> r.probed,
   launched |-> r.launched, validations |-> r.validations, reported |-> r.reported,
   command |-> command, feature |-> feature, timeout |-> timeout]

\* the simulator after a run_command call that left r
Ran(r, command, timeout, feature) ==
  /\ driftmgr_available' = r.avail
  /\ test_summary' = r.test_summary
  /\ tui' = r.tui
  /\ ret' = CallRecord(r, command, timeout, feature)
  /\ probes' = IF r.probed THEN probes + 1 ELSE probes
  /\ launches' = IF r.launched THEN launches + 1 ELSE launches
  /\ calls' = calls + 1

\* main: create the simulator, check the tool, announce the run
Main ==
  /\ pc = "main"
  /\ pc' = "run_full_simulation"
  /\ probes' = probes + 1
  /\ UNCHANGED <<env, driftmgr_available, test_summary, simulation_results, tui,
                 phase, phase_commands, idx, ret, report, launches, calls>>
  /\ UNCHANGED <<threading, user_session>>

\* run_full_simulation up to the try block
StartSimulation ==
  /\ pc = "run_full_simulation"
  /\ tui' = initialize_simulation(tui, TotalCommands)
  /\ phase' = 1
  /\ pc' = "phase"
  /\ UNCHANGED <<env, driftmgr_available, test_summary, simulation_results,
                 phase_commands, idx, ret, report, probes, launches, calls>>
  /\ UNCHANGED <<threading, user_session>>

\* the running phase
Phase == Phases(FallbackRegions, env.draw)[phase]

\* a simulate_* method up to its for loop
BeginPhase ==
  /\ pc = "phase"
  /\ tui' = update_feature_progress(tui, phase - 1, Phase.title)
  /\ phase_commands' = Phase.commands
  /\ idx' = 1
  /\ pc' = "commands"
  /\ UNCHANGED <<env, driftmgr_available, test_summary, simulation_results, phase,
                 ret, report, probes, launches, calls>>
  /\ UNCHANGED <<threading, user_session>>

\* a for loop that puts each record in front of the earlier ones
Recorded_newest_first(ph, r) ==
  /\ Ran(r, phase_commands[idx], ph.timeout, ph.feature)
  /\ IF r.raised
     THEN /\ pc' = "done"
          /\ report' = None
          /\ UNCHANGED <<simulation_results, idx>>
     ELSE /\ simulation_results' =
               <<[feature |-> ph.feature, result |-> r.result]>> \o simulation_results
          /\ idx' = idx + 1
          /\ UNCHANGED <<pc, report>>

\* a for loop that stops at the first command whose validation failed
Recorded_stops_at_failure(ph, r) ==
  /\ Ran(r, phase_commands[idx], ph.timeout, ph.feature)
  /\ IF r.raised \/ ~r.result.validation.test_passed
     THEN /\ pc' = "done"
          /\ report' = None
          /\ UNCHANGED <<simulation_results, idx>>
     ELSE /\ simulation_results' =
               Append(simulation_results, [feature |-> ph.feature, result |-> r.result])
          /\ idx' = idx + 1
          /\ UNCHANGED <<pc, report>>

\* one turn of a phase's for loop, where run_command left r: the append
Recorded(ph, r) ==
  /\ Ran(r, phase_commands[idx], ph.timeout, ph.feature)
  /\ IF r.raised
     THEN /\ pc' = "done"
          /\ report' = None
          /\ UNCHANGED <<simulation_results, idx>>
     ELSE /\ simulation_results' =
               Append(simulation_results, [feature |-> ph.feature, result |-> r.result])
          /\ idx' = idx + 1
          /\ UNCHANGED <<pc, report>>

\* the world of one call in a session: the tool as it is
SessionWorld == [probe |-> env.tool.probe, out |-> env.tool.out]

\* one turn of a phase's for loop: run_command, then the append
NextCommand ==
  /\ pc = "commands"
  /\ idx <= Len(phase_commands)
  /\ Recorded(Phase, run_command(driftmgr_available, test_summary, tui, phase_commands[idx],
                                 Phase.timeout, Phase.feature, SessionWorld))
  /\ UNCHANGED <<env, phase, phase_commands>>
  /\ UNCHANGED <<threading, user_session>>

\* the for loop of a phase is over: the next phase, or the report
EndPhase ==
  /\ pc = "commands"
  /\ idx > Len(phase_commands)
  /\ IF phase < NumPhases
     THEN phase' = phase + 1 /\ pc' = "phase"
     ELSE phase' = phase /\ pc' = "report"
  /\ UNCHANGED <<env, driftmgr_available, test_summary, simulation_results, tui,
                 phase_commands, idx, ret, report, probes, launches, calls>>
  /\ UNCHANGED <<threading, user_session>>

\* run_full_simulation after generate_simulation_report left g: show_summary
\* and the return
Returned(g) == report' = IF g.raised THEN None ELSE g.report

\* generate_simulation_report, show_summary and the return of the report
Report ==
  /\ pc = "report"
  /\ \E disk_ok \in BOOLEAN :
       Returned(generate_simulation_report(simulation_results, test_summary, disk_ok))
  /\ pc' = "done"
  /\ UNCHANGED <<env, driftmgr_available, test_summary, simulation_results, tui,
                 phase, phase_commands, idx, ret, probes, launches, calls>>
  /\ UNCHANGED <<threading, user_session>>

\* except KeyboardInterrupt: the operator stops the run
Interrupt ==
  /\ pc \in {"phase", "commands", "report"}
  /\ pc' = "done"
  /\ report' = None
  /\ UNCHANGED <<env, driftmgr_available, test_summary, simulation_results, tui,
                 phase, phase_commands, idx, ret, probes, launches, calls>>
  /\ UNCHANGED <<threading, user_session>>

Next ==
  \/ Main
  \/ StartSimulation
  \/ BeginPhase
  \/ NextCommand
  \/ EndPhase
  \/ Report
  \/ Interrupt

Spec == Init /\ [][Next]_vars

-----------------------------------------------------------------------------
(* run_command called directly, on any command, against any world *)

\* number of run_command calls followed
MaxCalls == 2

\* commands of the phase tables, with the feature and timeout their phase gives
SampleCommands ==
  { [feature |-> "credential_auto_detection", timeout |-> DefaultTimeout,
     command |-> credential_commands[2]],
    [feature |-> "drift_analysis", timeout |-> 90, command |-> analysis_commands[1]],
    [feature |-> "advanced", timeout |-> DefaultTimeout, command |-> advanced_commands[1]],
    [feature |-> "advanced", timeout |-> DefaultTimeout, command |-> advanced_commands[9]],
    [feature |-> "error_handling", timeout |-> DefaultTimeout, command |-> error_commands[1]],
    [feature |-> "error_handling", timeout |-> DefaultTimeout, command |-> error_commands[6]] }

\* what the world can do during one call: the probe fails (and nothing is
\* launched), or it succeeds and the launch ends in one of LaunchEnds
Worlds ==
  { w \in [probe : BOOLEAN, out : LaunchEnds] : ~w.probe => w.out = TimedOut }

InitRun ==
  /\ pc = "direct"
  /\ env = [tool |-> [probe |-> TRUE, out |-> TimedOut],
            draw |-> [p \in DOMAIN FallbackRegions |-> <<FallbackRegions[p][1]>>]]
  /\ Constructed
  /\ Unthreaded

RunCommand ==
  /\ pc = "direct"
  /\ calls < MaxCalls
  /\ \E c \in SampleCommands, w \in Worlds :
       Ran(run_command(driftmgr_available, test_summary, tui,
                       c.command, c.timeout, c.feature, w),
           c.command, c.timeout, c.feature)
  /\ UNCHANGED <<pc, env, simulation_results, phase, phase_commands, idx, report>>
  /\ UNCHANGED <<threading, user_session>>

NextRun == RunCommand

SpecRun == InitRun /\ [][NextRun]_vars


-----------------------------------------------------------------------------
\* The validator and the report called directly on a fresh simulator

\* the commands validated directly, with the feature their phase gives
ValidatedCommands ==
  { [feature |-> "credential_auto_detection", command |-> credential_commands[2]],
    [feature |-> "drift_analysis", command |-> analysis_commands[1]],
    [feature |-> "error_handling", command |-> error_commands[6]] }

\* the result dicts run_command can build for command_str
SampleResults(command_str) ==
  { ResultData(command_str, o.returncode, o.stdout, o.stderr, o.elapsed, o.returncode = 0) :
      o \in { Completed(0, <<"Discovered 12 resources">>, <<>>),
              Completed(1, <<>>, <<>>),
              Completed(1, <<>>, <<"unknown command">>),
              Completed(1, <<"Usage: driftmgr [command] --help">>, <<>>) } }
  \cup { SkipResult(command_str) }

InitValidate ==
  /\ pc = "validate"
  /\ env = [tool |-> [probe |-> TRUE, out |-> TimedOut],
            draw |-> [p \in DOMAIN FallbackRegions |-> <<FallbackRegions[p][1]>>]]
  /\ Constructed
  /\ Unthreaded

\* the simulator after validate_command_result left v for result: the
\* validation is attached and the record appended, as the phases do
Appended(feature, result, v) ==
  /\ test_summary' = v.test_summary
  /\ simulation_results' =
       Append(simulation_results,
              [feature |-> feature, result |-> result @@ [validation |-> v.validation]])

\* validate_command_result on one more result
Validate ==
  /\ pc = "validate"
  /\ Len(simulation_results) < MaxCalls
  /\ \E c \in ValidatedCommands :
       \E result \in SampleResults(Join(c.command)) :
         Appended(c.feature, result,
                  validate_command_result(test_summary, result.command, result, c.feature))
  /\ UNCHANGED <<pc, env, driftmgr_available, tui, phase, phase_commands, idx, ret,
                 report, probes, launches, calls>>
  /\ UNCHANGED <<threading, user_session>>

\* the simulator after generate_simulation_report left g
Generated(g) ==
  /\ report' = g.report
  /\ ret' = [NoCall EXCEPT !.raised = g.raised, !.path = "report"]

\* generate_simulation_report on what has been recorded; the report file can
\* be written
GenerateReport ==
  /\ pc = "validate"
  /\ Generated(generate_simulation_report(simulation_results, test_summary, TRUE))
  /\ pc' = "reported"
  /\ UNCHANGED <<env, driftmgr_available, test_summary, simulation_results, tui,
                 phase, phase_commands, idx, probes, launches, calls>>
  /\ UNCHANGED <<threading, user_session>>

NextValidate == Validate \/ GenerateReport

SpecValidate == InitValidate /\ [][NextValidate]_vars

-----------------------------------------------------------------------------
\* A LoadingBar shared by threads: update and complete, statement by statement

\* the threads that call into the shared object
Threads == {1, 2}

\* the calls each thread makes
MaxThreadCalls == 1

\* the steps test_loading_bar's loop passes to update, with f"Step {i}"
UpdateSteps == {0, 5, 10}

\* `if step_title:` is false
NoTitle == [text |-> ""]

\* a thread between calls, done calls behind it
BarFrame(done) ==
  [pc |-> "idle", step |-> 0, step_title |-> NoTitle, message |-> NoTitle,
   caller |-> "thread", acted |-> "nothing", done |-> done]

InitBar ==
  /\ pc = "bar"
  /\ env = [tool |-> [probe |-> TRUE, out |-> TimedOut],
            draw |-> [p \in DOMAIN FallbackRegions |-> <<FallbackRegions[p][1]>>]]
  /\ Constructed
  /\ loading_bar = NewLoadingBar(10)
  /\ lock = {}
  /\ threads = [t \in Threads |-> BarFrame(0)]
  /\ sys_stdout = <<>>
  /\ user_session = None

\* what the simulator keeps while threads work on the bar
Simulator ==
  <<pc, env, driftmgr_available, test_summary, simulation_results, tui, phase,
    phase_commands, idx, ret, report, probes, launches, calls>>

\* thread t moves to frame f
Goes(t, f) == threads' = [threads EXCEPT ![t] = f]

\* loading_bar.update(i, f"Step {i}") is called
CallUpdate(t) ==
  /\ pc = "bar"
  /\ threads[t].pc = "idle"
  /\ threads[t].done < MaxThreadCalls
  /\ \E i \in UpdateSteps :
       Goes(t, [threads[t] EXCEPT !.pc = "update", !.step = i,
                                  !.step_title = [step |-> i], !.caller = "thread"])
  /\ UNCHANGED <<Simulator, user_session, loading_bar, lock, sys_stdout>>

\* loading_bar.complete("Test completed!") is called
CallComplete(t) ==
  /\ pc = "bar"
  /\ threads[t].pc = "idle"
  /\ threads[t].done < MaxThreadCalls
  /\ Goes(t, [threads[t] EXCEPT !.pc = "complete",
                                !.message = [text |-> "Test completed!"]])
  /\ UNCHANGED <<Simulator, user_session, loading_bar, lock, sys_stdout>>

\* an acquire that does not wait for the holder
CanAcquire_without_waiting(t) == t \notin lock

\* threading.Lock.acquire returns only while nobody holds the lock
CanAcquire(t) == lock = {}

\* `with self.lock:` of update or of complete is entered
Acquire(t) ==
  /\ pc \in {"bar", "callers"}
  /\ threads[t].pc \in {"update", "complete"}
  /\ CanAcquire(t)
  /\ lock' = lock \cup {t}
  /\ Goes(t, [threads[t] EXCEPT !.pc = IF @ = "update" THEN "step" ELSE "call_update"])
  /\ UNCHANGED <<Simulator, user_session, loading_bar, sys_stdout>>

\* complete calls self.update(self.total_steps, message)
EnterUpdate(t) ==
  /\ pc = "bar"
  /\ threads[t].pc = "call_update"
  /\ Goes(t, [threads[t] EXCEPT !.pc = "update", !.step = loading_bar.total_steps,
                                !.step_title = threads[t].message, !.caller = "complete"])
  /\ UNCHANGED <<Simulator, user_session, loading_bar, lock, sys_stdout>>

\* self.current_step = step, then self.current_step_title = step_title
Assign(t) ==
  /\ pc \in {"bar", "callers"}
  /\ threads[t].pc \in {"step", "title"}
  /\ IF threads[t].pc = "step"
     THEN /\ loading_bar' = [loading_bar EXCEPT !.current_step = threads[t].step]
          /\ Goes(t, [threads[t] EXCEPT !.pc = "title"])
     ELSE /\ loading_bar' = [loading_bar EXCEPT !.current_step_title = threads[t].step_title]
          /\ Goes(t, [threads[t] EXCEPT !.pc = "cr"])
  /\ UNCHANGED <<Simulator, user_session, lock, sys_stdout>>

\* what the write at position part of thread t puts on sys.stdout
Written(t, part) ==
  [by |-> t, part |-> part,
   text |-> CASE part = "line" ->
                   LoadingBar_update(loading_bar, threads[t].step,
                                     threads[t].step_title).rendered
              [] part = "label" -> threads[t].step_title
              [] OTHER -> NoTitle]

\* the position after the write at position part
AfterWrite(t, part) ==
  CASE part = "cr" -> "line"
    [] part = "line" -> IF threads[t].step_title # NoTitle THEN "label" ELSE "flush"
    [] part = "label" -> "flush"
    [] part = "newline" -> "exit_complete"

\* the sys.stdout.write calls of update ('\r', the status line, the label) and
\* the print() of complete
Write(t) ==
  /\ pc \in {"bar", "callers"}
  /\ threads[t].pc \in {"cr", "line", "label", "newline"}
  /\ sys_stdout' = Append(sys_stdout, Written(t, threads[t].pc))
  /\ Goes(t, [threads[t] EXCEPT !.pc = AfterWrite(t, @)])
  /\ UNCHANGED <<Simulator, user_session, loading_bar, lock>>

\* sys.stdout.flush()
Flush(t) ==
  /\ pc \in {"bar", "callers"}
  /\ threads[t].pc = "flush"
  /\ Goes(t, [threads[t] EXCEPT !.pc = "exit_update"])
  /\ UNCHANGED <<Simulator, user_session, loading_bar, lock, sys_stdout>>

\* the end of a `with self.lock:` block releases the lock; update returns to
\* complete or to the thread, complete to the thread
Release(t) ==
  /\ pc \in {"bar", "callers"}
  /\ threads[t].pc \in {"exit_update", "exit_complete"}
  /\ lock' = {}
  /\ IF threads[t].pc = "exit_update" /\ threads[t].caller = "complete"
     THEN Goes(t, [threads[t] EXCEPT !.pc = "newline"])
     ELSE Goes(t, BarFrame(threads[t].done + 1))
  /\ UNCHANGED <<Simulator, user_session, loading_bar, sys_stdout>>

NextBar ==
  \E t \in Threads :
    \/ CallUpdate(t)
    \/ CallComplete(t)
    \/ Acquire(t)
    \/ EnterUpdate(t)
    \/ Assign(t)
    \/ Write(t)
    \/ Flush(t)
    \/ Release(t)

SpecBar == InitBar /\ [][NextBar]_vars

-----------------------------------------------------------------------------
\* validate_command_result called by several threads on one simulator: the
\* statistics update, one read or write of test_summary at a time

\* the results that reach the statistics update
CountedResults(command_str) == SampleResults(command_str) \ {SkipResult(command_str)}

\* a thread between calls, done calls behind it
ValidatorFrame(done) ==
  [pc |-> "idle", feature |-> "", test_passed |-> FALSE, loaded |-> 0, done |-> done]

InitConcurrent ==
  /\ pc = "validators"
  /\ env = [tool |-> [probe |-> TRUE, out |-> TimedOut],
            draw |-> [p \in DOMAIN FallbackRegions |-> <<FallbackRegions[p][1]>>]]
  /\ Constructed
  /\ loading_bar = None
  /\ lock = {}
  /\ threads = [t \in Threads |-> ValidatorFrame(0)]
  /\ sys_stdout = <<>>
  /\ user_session = None

\* what the simulator keeps while threads work on test_summary
Bystanders ==
  <<pc, env, driftmgr_available, simulation_results, tui, phase, phase_commands,
    idx, ret, report, probes, launches, calls, loading_bar, lock, sys_stdout,
    user_session>>

\* thread t has the verdict of its call and stands before the statistics
Judged(t, feature, validation) ==
  Goes(t, [threads[t] EXCEPT !.pc = "total_tests", !.feature = feature,
                             !.test_passed = validation.test_passed])

\* validate_command_result is called and runs up to "Update test summary"
StartValidation(t) ==
  /\ pc = "validators"
  /\ threads[t].pc = "idle"
  /\ threads[t].done < MaxThreadCalls
  /\ \E c \in ValidatedCommands :
       \E result \in CountedResults(Join(c.command)) :
         Judged(t, c.feature, ExpectedBehavior(result.command, result))
  /\ UNCHANGED <<Bystanders, test_summary>>

\* the key of the counter that the verdict of t selects
VerdictKey(t, passed_key, failed_key) ==
  IF threads[t].test_passed THEN passed_key ELSE failed_key

\* the counter of a `+= 1` statement: the session's or the feature entry's
Counter(t, ts) ==
  CASE threads[t].pc \in {"total_tests", "total_tests_store"} -> ts.total_tests
    [] threads[t].pc \in {"verdict", "verdict_store"} ->
         ts[VerdictKey(t, "passed_tests", "failed_tests")]
    [] threads[t].pc \in {"total", "total_store"} ->
         ts.feature_results[threads[t].feature].total
    [] threads[t].pc \in {"feature_verdict", "feature_verdict_store"} ->
         ts.feature_results[threads[t].feature][VerdictKey(t, "passed", "failed")]

\* test_summary with the counter of the `+= 1` statement of t set to value
Stored(t, ts, value) ==
  CASE threads[t].pc = "total_tests_store" -> [ts EXCEPT !.total_tests = value]
    [] threads[t].pc = "verdict_store" ->
         [ts EXCEPT ![VerdictKey(t, "passed_tests", "failed_tests")] = value]
    [] threads[t].pc = "total_store" ->
         [ts EXCEPT !.feature_results[threads[t].feature].total = value]
    [] threads[t].pc = "feature_verdict_store" ->
         [ts EXCEPT !.feature_results[threads[t].feature][VerdictKey(t, "passed", "failed")] = value]

\* the first half of a `+= 1`: the counter is read
Load(t) ==
  /\ pc = "validators"
  /\ threads[t].pc \in {"total_tests", "verdict", "total", "feature_verdict"}
  /\ Goes(t, [threads[t] EXCEPT !.loaded = Counter(t, test_summary),
                                !.pc = CASE @ = "total_tests" -> "total_tests_store"
                                         [] @ = "verdict" -> "verdict_store"
                                         [] @ = "total" -> "total_store"
                                         [] @ = "feature_verdict" -> "feature_verdict_store"])
  /\ UNCHANGED <<Bystanders, test_summary>>

\* the second half of a `+= 1`: what was read, plus one, is written
Store(t) ==
  /\ pc = "validators"
  /\ threads[t].pc \in {"total_tests_store", "verdict_store", "total_store",
                        "feature_verdict_store"}
  /\ test_summary' = Stored(t, test_summary, threads[t].loaded + 1)
  /\ Goes(t, [threads[t] EXCEPT !.pc = CASE @ = "total_tests_store" -> "verdict"
                                         [] @ = "verdict_store" -> "feature_check"
                                         [] @ = "total_store" -> "feature_verdict"
                                         [] @ = "feature_verdict_store" -> "success_rate"])
  /\ UNCHANGED Bystanders

\* `if feature not in self.test_summary['feature_results']`
CheckEntry(t) ==
  /\ pc = "validators"
  /\ threads[t].pc = "feature_check"
  /\ Goes(t, [threads[t] EXCEPT !.pc =
                IF threads[t].feature \in DOMAIN test_summary.feature_results
                THEN "total" ELSE "feature_new"])
  /\ UNCHANGED <<Bystanders, test_summary>>

\* the new entry is stored under feature
CreateEntry(t) ==
  /\ pc = "validators"
  /\ threads[t].pc = "feature_new"
  /\ test_summary' =
       [test_summary EXCEPT !.feature_results =
          [f \in DOMAIN @ \cup {threads[t].feature} |->
             IF f = threads[t].feature THEN NewFeature ELSE @[f]]]
  /\ Goes(t, [threads[t] EXCEPT !.pc = "total"])
  /\ UNCHANGED Bystanders

\* success_rate = passed / total * 100, a ZeroDivisionError when total is 0
Rate(t) ==
  /\ pc = "validators"
  /\ threads[t].pc = "success_rate"
  /\ IF test_summary.feature_results[threads[t].feature].total = 0
     THEN /\ Goes(t, [threads[t] EXCEPT !.pc = "raised"])
          /\ UNCHANGED test_summary
     ELSE /\ test_summary' =
               [test_summary EXCEPT !.feature_results[threads[t].feature].success_rate =
                  Ratio(test_summary.feature_results[threads[t].feature].passed * 100,
                        test_summary.feature_results[threads[t].feature].total)]
          /\ Goes(t, [threads[t] EXCEPT !.pc = "return"])
  /\ UNCHANGED Bystanders

\* return validation
ReturnValidation(t) ==
  /\ pc = "validators"
  /\ threads[t].pc = "return"
  /\ Goes(t, ValidatorFrame(threads[t].done + 1))
  /\ UNCHANGED <<Bystanders, test_summary>>

NextConcurrent ==
  \E t \in Threads :
    \/ StartValidation(t)
    \/ Load(t)
    \/ Store(t)
    \/ CheckEntry(t)
    \/ CreateEntry(t)
    \/ Rate(t)
    \/ ReturnValidation(t)

SpecConcurrent == InitConcurrent /\ [][NextConcurrent]_vars
-----------------------------------------------------------------------------
\* A LoadingBar updated by one caller whose steps never go down

\* the total_steps of the bars followed: test_loading_bar's 10, the TUI's 11,
\* and bars of 1, 50 and 100 steps
BarTotals == {1, Len(feature_steps) - 1, Len(feature_steps), 50, 100}

InitUpdate ==
  /\ pc = "update"
  /\ env = [tool |-> [probe |-> TRUE, out |-> TimedOut],
            draw |-> [p \in DOMAIN FallbackRegions |-> <<FallbackRegions[p][1]>>]]
  /\ Constructed
  /\ \E total_steps \in BarTotals : loading_bar = NewLoadingBar(total_steps)
  /\ lock = {}
  /\ threads = <<>>
  /\ sys_stdout = <<>>
  /\ user_session = None

\* loading_bar.update(i, f"Step {i}") with i not below the step of the call before
Update ==
  /\ pc = "update"
  /\ \E i \in loading_bar.current_step .. loading_bar.total_steps + 1 :
       loading_bar' = LoadingBar_update(loading_bar, i, [step |-> i])
  /\ UNCHANGED <<Simulator, user_session, lock, threads, sys_stdout>>

NextUpdate == Update

SpecUpdate == InitUpdate /\ [][NextUpdate]_vars

-----------------------------------------------------------------------------
\* run_command called by threads on one simulator: the availability check, the
\* two waits on a subprocess, and the report to the TUI, statement by statement

InitCallers ==
  /\ pc = "callers"
  /\ env = [tool |-> [probe |-> TRUE, out |-> TimedOut],
            draw |-> [p \in DOMAIN FallbackRegions |-> <<FallbackRegions[p][1]>>]]
  /\ driftmgr_available = NotSet
  /\ test_summary = NewSummary
  /\ simulation_results = <<>>
  /\ tui = initialize_simulation(NewTUI, TotalCommands)
  /\ phase = 0
  /\ phase_commands = <<>>
  /\ idx = 0
  /\ ret = NoCall
  /\ report = None
  /\ probes = 0
  /\ launches = 0
  /\ calls = 0
  /\ loading_bar = tui.loading_bar
  /\ lock = {}
  /\ threads = [t \in Threads |-> BarFrame(0)]
  /\ sys_stdout = <<>>
  /\ user_session = None

\* run_command(['driftmgr', ...]) is called
CallRunCommand(t) ==
  /\ pc = "callers"
  /\ threads[t].pc = "idle"
  /\ threads[t].done < MaxThreadCalls
  /\ Goes(t, [threads[t] EXCEPT !.pc = "hasattr", !.caller = "run_command"])
  /\ calls' = calls + 1
  /\ UNCHANGED <<pc, env, driftmgr_available, test_summary, simulation_results, tui,
                 phase, phase_commands, idx, ret, report, probes, launches>>
  /\ UNCHANGED <<loading_bar, lock, sys_stdout, user_session>>

\* `if not hasattr(self, '_driftmgr_available')`: on to the probe, whose
\* subprocess the thread then waits for, or past it
CheckCache(t) ==
  /\ pc = "callers"
  /\ threads[t].pc = "hasattr"
  /\ Goes(t, [threads[t] EXCEPT !.pc = IF driftmgr_available = NotSet THEN "probe"
                                       ELSE "available"])
  /\ UNCHANGED <<Simulator, user_session, loading_bar, lock, sys_stdout>>

\* validate_driftmgr_availability returns and its answer is assigned
ProbeReturns(t) ==
  /\ pc = "callers"
  /\ threads[t].pc = "probe"
  /\ \E answer \in BOOLEAN : driftmgr_available' = Cached(answer)
  /\ probes' = probes + 1
  /\ Goes(t, [threads[t] EXCEPT !.pc = "available"])
  /\ UNCHANGED <<pc, env, test_summary, simulation_results, tui, phase,
                 phase_commands, idx, ret, report, launches, calls>>
  /\ UNCHANGED <<loading_bar, lock, sys_stdout, user_session>>

\* a caller that takes the bar's lock before it launches the command
ReadCache_taking_lock(t) ==
  /\ pc = "callers"
  /\ threads[t].pc = "available"
  /\ CanAcquire(t)
  /\ lock' = lock \cup {t}
  /\ Goes(t, [threads[t] EXCEPT !.pc = "launch", !.acted = "available"])
  /\ UNCHANGED <<Simulator, user_session, loading_bar, sys_stdout>>

\* `if not self._driftmgr_available`: the skip result, or subprocess.run, for
\* which the thread then waits
ReadCache(t) ==
  /\ pc = "callers"
  /\ threads[t].pc = "available"
  /\ IF driftmgr_available.value
     THEN Goes(t, [threads[t] EXCEPT !.pc = "launch", !.acted = "available"])
     ELSE Goes(t, [threads[t] EXCEPT !.pc = "progress", !.acted = "unavailable"])
  /\ UNCHANGED <<Simulator, user_session, loading_bar, lock, sys_stdout>>

\* subprocess.run returns or raises; the result is built and validated
LaunchReturns(t) ==
  /\ pc = "callers"
  /\ threads[t].pc = "launch"
  /\ launches' = launches + 1
  /\ Goes(t, [threads[t] EXCEPT !.pc = "progress"])
  /\ UNCHANGED <<pc, env, driftmgr_available, test_summary, simulation_results, tui,
                 phase, phase_commands, idx, ret, report, probes, calls>>
  /\ UNCHANGED <<loading_bar, lock, sys_stdout, user_session>>

\* self.tui.update_command_progress up to its call of self.loading_bar.update
ReportProgress(t) ==
  /\ pc = "callers"
  /\ threads[t].pc = "progress"
  /\ tui' = [tui EXCEPT !.completed_commands = @ + 1]
  /\ Goes(t, [threads[t] EXCEPT
                !.pc = "update",
                !.step = int(float_mul(float_div(tui.completed_commands + 1,
                                                 tui.total_commands), 100)),
                !.step_title = [feature |-> tui.current_feature,
                                completed |-> tui.completed_commands + 1,
                                total |-> tui.total_commands]])
  /\ UNCHANGED <<pc, env, driftmgr_available, test_summary, simulation_results,
                 phase, phase_commands, idx, ret, report, probes, launches, calls>>
  /\ UNCHANGED <<loading_bar, lock, sys_stdout, user_session>>

NextCallers ==
  \E t \in Threads :
    \/ CallRunCommand(t)
    \/ CheckCache(t)
    \/ ProbeReturns(t)
    \/ ReadCache(t)
    \/ LaunchReturns(t)
    \/ ReportProgress(t)
    \/ Acquire(t)
    \/ Assign(t)
    \/ Write(t)
    \/ Flush(t)
    \/ Release(t)

SpecCallers == InitCallers /\ [][NextCallers]_vars

-----------------------------------------------------------------------------
\* The comprehensive simulation (user_simulation_comprehensive.py): run_command
\* with its session counters, and generate_session_report

\* self.user_session as DriftMgrUserSimulation.__init__ leaves it
NewSession == [commands_executed |-> 0, successful_commands |-> 0, failed_commands |-> 0]

\* commands of simulate_credential_check and the version check, with their timeouts
SessionCommands ==
  { [command |-> <<"driftmgr", "--version">>, timeout |-> 10],
    [command |-> <<"driftmgr", "credentials", "--show">>, timeout |-> 15] }

\* a run_command whose TimeoutExpired handler forgets the failure counter
DriftMgrUserSimulation_run_command_uncounted(us, command, timeout, out) ==
  [user_session |-> [us EXCEPT !.commands_executed = @ + 1],
   result |-> [success |-> FALSE, duration |-> timeout, stdout |-> <<>>,
               stderr |-> <<"Command timed out after ", ToString(timeout), " seconds">>,
               returncode |-> -1,
               command |-> command]]

\* DriftMgrUserSimulation.run_command: the counters it leaves and the dict it
\* returns, for a launch that ends in out
DriftMgrUserSimulation_run_command(us, command, timeout, out) ==
  CASE out.kind = "Completed" ->
         [user_session |->
            [us EXCEPT !.commands_executed = @ + 1,
                       !.successful_commands = IF out.returncode = 0 THEN @ + 1 ELSE @,
                       !.failed_commands = IF out.returncode = 0 THEN @ ELSE @ + 1],
          result |-> [success |-> out.returncode = 0, duration |-> out.elapsed,
                      stdout |-> out.stdout, stderr |-> out.stderr,
                      returncode |-> out.returncode, command |-> command]]
    [] out.kind = "TimedOut" ->
         [user_session |-> [us EXCEPT !.commands_executed = @ + 1,
                                      !.failed_commands = @ + 1],
          result |-> [success |-> FALSE, duration |-> timeout, stdout |-> <<>>,
                      stderr |-> <<"Command timed out after ", ToString(timeout), " seconds">>,
                      returncode |-> -1,
                      command |-> command]]
    [] OTHER ->
         [user_session |-> [us EXCEPT !.commands_executed = @ + 1,
                                      !.failed_commands = @ + 1],
          result |-> [success |-> FALSE, duration |-> 0, stdout |-> <<>>,
                      stderr |-> out.message, returncode |-> -1, command |-> command]]

\* report['command_stats'] of generate_session_report
generate_session_report(us) ==
  [command_stats |->
     [total_commands      |-> us.commands_executed,
      successful_commands |-> us.successful_commands,
      failed_commands     |-> us.failed_commands,
      success_rate        |-> IF us.commands_executed > 0
                              THEN Ratio(us.successful_commands * 100, us.commands_executed)
                              ELSE Ratio(0, 1)]]

InitSession ==
  /\ pc = "session"
  /\ env = [tool |-> [probe |-> TRUE, out |-> TimedOut],
            draw |-> [p \in DOMAIN FallbackRegions |-> <<FallbackRegions[p][1]>>]]
  /\ Constructed
  /\ loading_bar = None
  /\ lock = {}
  /\ threads = <<>>
  /\ sys_stdout = <<>>
  /\ user_session = NewSession

\* the simulation after a run_command call that left r
SessionRan(r) ==
  /\ user_session' = r.user_session
  /\ ret' = [NoCall EXCEPT !.result = r.result, !.path = "session",
                           !.command = r.result.command, !.launched = TRUE]

\* self.run_command(command, timeout=...) of the comprehensive simulation
SessionCommand ==
  /\ pc = "session"
  /\ calls < MaxCalls
  /\ \E c \in SessionCommands, out \in LaunchEnds :
       SessionRan(DriftMgrUserSimulation_run_command(user_session, c.command, c.timeout, out))
  /\ calls' = calls + 1
  /\ launches' = launches + 1
  /\ UNCHANGED <<pc, env, driftmgr_available, test_summary, simulation_results, tui,
                 phase, phase_commands, idx, report, probes>>
  /\ UNCHANGED threading

\* report = self.generate_session_report()
SessionReport ==
  /\ pc = "session"
  /\ report' = generate_session_report(user_session)
  /\ pc' = "session_reported"
  /\ UNCHANGED <<env, driftmgr_available, test_summary, simulation_results, tui,
                 phase, phase_commands, idx, ret, probes, launches, calls>>
  /\ UNCHANGED <<threading, user_session>>

NextSession == SessionCommand \/ SessionReport

SpecSession == InitSession /\ [][NextSession]_vars


-----------------------------------------------------------------------------
\* Properties

\* C1: after any sequence of validations the session counters satisfy
\* total_tests = passed_tests + failed_tests, and every entry of
\* feature_results satisfies total = passed + failed.
CountersAddUp ==
  /\ test_summary.total_tests = test_summary.passed_tests + test_summary.failed_tests
  /\ \A f \in DOMAIN test_summary.feature_results :
       test_summary.feature_results[f].total =
         test_summary.feature_results[f].passed + test_summary.feature_results[f].failed

\* two features have been counted, with passes and failures among them
CountersAddUp_mixed ==
  /\ test_summary.passed_tests > 0
  /\ test_summary.failed_tests > 0
  /\ Cardinality(DOMAIN test_summary.feature_results) = 2

\* C2: every invocation passed through run_command, however it ended, adds one
\* to total_tests and one to the total of its feature's entry, so that after n
\* invocations total_tests = n = the number of records in simulation_results.
EveryInvocationCounted ==
  /\ test_summary.total_tests = calls
  /\ Len(simulation_results) = calls
  /\ (pc = "commands" /\ idx > 1) =>
       /\ Phase.feature \in DOMAIN test_summary.feature_results
       /\ test_summary.feature_results[Phase.feature].total = idx - 1

\* C3: when the tool is absent a full session runs every phase, produces its
\* report, gives every command a PASS verdict, and reports an overall success
\* rate in which all recorded commands count as passed.
AbsentToolSessionPasses ==
  (pc = "done" /\ Absent(env.tool) /\ report # None) =>
    /\ Len(simulation_results) = TotalCommands
    /\ \A i \in DOMAIN simulation_results :
         simulation_results[i].result.validation.test_passed
    /\ report.overall_success_rate.num = 100 * report.overall_success_rate.den

\* C4: within one session the availability probe is executed at most once.
ProbedAtMostOnce == probes <= 1

\* C5: once the probe has reported the tool unavailable, a run_command on a
\* driftmgr command launches no process and returns the synthesized result:
\* return code -1, empty stdout, duration 0, success false.
UnavailableToolIsSkipped ==
  (is_driftmgr(ret.command) /\ driftmgr_available = Cached(FALSE)) =>
    /\ ~ret.launched
    /\ launches = 0
    /\ ~ret.raised
    /\ ret.result.return_code = -1
    /\ ret.result.stdout = <<>>
    /\ ret.result.duration = 0
    /\ ~ret.result.success

\* a second call has been answered from the cached FALSE
UnavailableToolIsSkipped_cached ==
  /\ calls = 2
  /\ ret.path = "unavailable"
  /\ ~ret.probed
  /\ driftmgr_available = Cached(FALSE)

\* C6: run_command never raises to its caller; when the launch or the
\* communication fails (executable not found, timeout, any other exception) it
\* returns a result with return code -1 and the failure text in stderr.
LaunchFailuresAreReturned ==
  /\ ~ret.raised
  /\ ret.path \in {"timeout", "not_found", "error"} =>
       /\ ret.result.return_code = -1
       /\ ~ret.result.success
       /\ ret.path = "timeout" => ret.result.stderr = <<"Command timed out">>
       /\ ret.path = "not_found" =>
            \E o \in LaunchEnds :
              o.kind = "NotFound" /\ ret.result.stderr = <<"Command not found: ">> \o o.message
       /\ ret.path = "error" =>
            \E o \in LaunchEnds : o.kind = "Error" /\ ret.result.stderr = o.message

\* a call whose launch raised another exception has returned its text
LaunchFailuresAreReturned_error ==
  /\ ret.path = "error"
  /\ ~ret.raised
  /\ ret.result.stderr = <<"[Errno 13] Permission denied: 'driftmgr'">>

MissingToolResultsPass ==
  ret.path \in {"unavailable", "not_found"} =>
    /\ ret.result.validation.test_passed
    /\ ret.result.validation.expected_behavior \in
         {"Should handle missing driftmgr gracefully",
          "Should handle missing executable gracefully"}

\* equal exit code, stdout and stderr
SameExecution(a, b) ==
  a.return_code = b.return_code /\ a.stdout = b.stdout /\ a.stderr = b.stderr

\* C9: two invocations issued under the same category with equal exit code,
\* stdout and stderr receive the same verdict, whatever their command tokens
\* (stated of the latest record against every earlier one).
VerdictDependsOnCategoryOnly ==
  \A j \in DOMAIN simulation_results :
    ( /\ simulation_results[j].feature =
           simulation_results[Len(simulation_results)].feature
      /\ SameExecution(simulation_results[j].result,
                       simulation_results[Len(simulation_results)].result) )
    => simulation_results[j].result.validation.test_passed =
         simulation_results[Len(simulation_results)].result.validation.test_passed

\* the keywords the specification gives each keyword category
CategoryKeywords ==
  ("credential_auto_detection" :> {"credentials found", "help"}) @@
  ("state_file_detection" :> {"help", "usage"}) @@
  ("resource_discovery" :> {"discovering", "found"}) @@
  ("drift_analysis" :> {"analyzing", "drift"}) @@
  ("monitoring" :> {"monitoring", "dashboard"}) @@
  ("remediation" :> {"remediating", "dry-run"}) @@
  ("configuration" :> {"config", "setup"}) @@
  ("reporting" :> {"report", "export"}) @@
  ("advanced" :> {"plugin", "api"})

\* exit code zero, or one of the category's keywords in the lower-cased stdout
KeywordVerdict(feature, result, out) ==
  result.return_code = 0 \/ \E k \in CategoryKeywords[feature] : In(k, out)

\* C10: for a command of a keyword category whose result is not that of a
\* missing tool, the verdict is PASS iff the exit code is zero or stdout
\* contains, case-insensitively, one of the category's keywords.
KeywordRuleDecides ==
  (ret.path \in {"completed", "timeout", "error"} /\ ret.feature \in DOMAIN CategoryKeywords) =>
    (ret.result.validation.test_passed
       <=> KeywordVerdict(ret.feature, ret.result, Lower(Str(ret.result.stdout))))

\* C11: every command of the error-handling phase gets the inverted verdict:
\* PASS iff the exit code is non-zero and (stderr is non-empty or stdout
\* contains 'error').
ErrorHandlingIsInverted ==
  ret.feature = "error_handling" =>
    (ret.result.validation.test_passed
       <=> /\ ret.result.return_code # 0
           /\ (ret.result.stderr # <<>> \/ In("error", Lower(Str(ret.result.stdout)))))

\* the fields of a result dict that run_command builds
SameInput(a, b) ==
  /\ a.feature = b.feature
  /\ a.result.command = b.result.command
  /\ a.result.success = b.result.success
  /\ a.result.duration = b.result.duration
  /\ SameExecution(a.result, b.result)

\* C12: two validations of the same command, feature and result give the same
\* verdict, expected-behaviour text and evidence; the counters the first one
\* updated do not influence the second.
ValidatorIsIdempotent ==
  \A i, j \in DOMAIN simulation_results :
    SameInput(simulation_results[i], simulation_results[j])
      => simulation_results[i].result.validation = simulation_results[j].result.validation

\* the same failing input has been validated twice, and counted both times
ValidatorIsIdempotent_twice ==
  /\ Len(simulation_results) = 2
  /\ SameInput(simulation_results[1], simulation_results[2])
  /\ ~simulation_results[2].result.validation.test_passed
  /\ test_summary.failed_tests = 2

\* the sum of field over the entries of the features in todo
RECURSIVE SumOfEntries(_, _, _)
SumOfEntries(feature_results, todo, field) ==
  IF todo = {} THEN 0
  ELSE LET f == CHOOSE f \in todo : TRUE
       IN  feature_results[f][field] + SumOfEntries(feature_results, todo \ {f}, field)

\* C13: between validations the totals of the feature entries add up to
\* total_tests, and likewise the passed and the failed counters.
FeatureTotalsAddUp ==
  /\ SumOfEntries(test_summary.feature_results, DOMAIN test_summary.feature_results, "total")
       = test_summary.total_tests
  /\ SumOfEntries(test_summary.feature_results, DOMAIN test_summary.feature_results, "passed")
       = test_summary.passed_tests
  /\ SumOfEntries(test_summary.feature_results, DOMAIN test_summary.feature_results, "failed")
       = test_summary.failed_tests

\* two validations have been counted, under two features
FeatureTotalsAddUp_two_features ==
  /\ Len(simulation_results) = 2
  /\ test_summary.total_tests = 2
  /\ Cardinality(DOMAIN test_summary.feature_results) = 2

\* C14: after every validation each feature entry has total > 0 and
\* success_rate = passed / total * 100.
RateIsCurrent ==
  \A f \in DOMAIN test_summary.feature_results :
    /\ test_summary.feature_results[f].total > 0
    /\ test_summary.feature_results[f].success_rate =
         Ratio(test_summary.feature_results[f].passed * 100,
               test_summary.feature_results[f].total)

\* a feature has one pass and one failure: its rate is 100 / 2
RateIsCurrent_half ==
  \E f \in DOMAIN test_summary.feature_results :
    /\ test_summary.feature_results[f].passed = 1
    /\ test_summary.feature_results[f].failed = 1
    /\ test_summary.feature_results[f].success_rate = Ratio(100, 2)

\* the percentage of the status line the bar of t rendered last, 0 before any
Percentage(t) ==
  IF t.loading_bar = None THEN 0
  ELSE IF t.loading_bar.rendered = None THEN 0
  ELSE t.loading_bar.rendered.percentage

\* C15: within one run of run_full_simulation the percentage rendered by the
\* progress bar never decreases from one rendering to the next.
PercentageNeverDecreases == [][Percentage(tui') >= Percentage(tui)]_vars

\* C17: when the operator interrupts a session, run_full_simulation still
\* returns a report built from the records and statistics accumulated so far.
InterruptKeepsReport ==
  [][Interrupt => /\ report' # None
                  /\ report'.detailed_results = simulation_results
                  /\ report'.test_summary = test_summary]_vars

\* C20: generating the report of a session with zero commands completes
\* without an error and reports an overall success rate of 0.
EmptyReportIsZero ==
  (pc = "reported" /\ Len(simulation_results) = 0) =>
    /\ ~ret.raised
    /\ report # None
    /\ report.overall_success_rate.num = 0

\* C16: LoadingBar.complete never blocks on the bar's own lock: a thread inside
\* complete is never waiting for the lock it holds itself.
CompleteNeverBlocks ==
  \A t \in DOMAIN threads :
    ~(pc = "bar" /\ threads[t].pc = "update" /\ threads[t].caller = "complete" /\ t \in lock)

\* C18: with concurrent callers of validate_command_result no counter update
\* is lost: once all of them have returned, total_tests is the number of
\* validations performed and total = passed + failed at both levels.
ConcurrentCountsAreExact ==
  (pc = "validators" /\ \A t \in Threads : threads[t].pc = "idle") =>
    /\ test_summary.total_tests = threads[1].done + threads[2].done
    /\ CountersAddUp

\* the positions of update from its first assignment to its last write
InUpdate == {"title", "cr", "line", "label", "flush", "exit_update"}

\* C19: concurrent calls of LoadingBar.update do not interleave: nobody enters
\* while another call is between its first assignment and its last write, the
\* fields keep the values of the call that is writing, and on sys.stdout each
\* status line follows its own '\r' and each label its own status line.
UpdateIsAtomic ==
  pc = "bar" =>
    /\ Cardinality(lock) <= 1
    /\ \A t \in Threads :
         threads[t].pc \in InUpdate =>
           /\ lock = {t}
           /\ loading_bar.current_step = threads[t].step
           /\ threads[t].pc # "title" =>
                loading_bar.current_step_title = threads[t].step_title
    /\ \A i \in DOMAIN sys_stdout :
         /\ sys_stdout[i].part = "line" =>
              /\ i > 1
              /\ sys_stdout[i - 1].part = "cr"
              /\ sys_stdout[i - 1].by = sys_stdout[i].by
         /\ sys_stdout[i].part = "label" =>
              /\ i > 1
              /\ sys_stdout[i - 1].part = "line"
              /\ sys_stdout[i - 1].by = sys_stdout[i].by
              /\ sys_stdout[i - 1].text.step_title = sys_stdout[i].text

\* a thread waits at `with self.lock` while the other is about to write its label
UpdateIsAtomic_contended ==
  /\ pc = "bar"
  /\ \E t, u \in Threads :
       /\ threads[t].pc = "update"
       /\ threads[t].caller = "thread"
       /\ threads[u].pc = "label"
       /\ lock = {u}

\* C21: a failure to write the report file affects only the output step: the
\* session still returns the report, built from the unchanged records and
\* statistics.
PersistFailureKeepsReport ==
  [][Report => /\ report' # None
               /\ report'.detailed_results = simulation_results
               /\ report'.test_summary = test_summary]_vars

\* the percentage of the status line a bar rendered last, 0 before any
Rendered(bar) == IF bar.rendered = None THEN 0 ELSE bar.rendered.percentage

\* C22: over LoadingBar.update calls with non-decreasing step on a bar with
\* total_steps >= 1 the rendered percentage never decreases, is
\* floor(min(step / total_steps, 1) * 100), never exceeds 100, and the ETA is
\* the placeholder whenever step is 0.
PercentageIsExact ==
  [][Update =>
       /\ Rendered(loading_bar') >= Rendered(loading_bar)
       /\ Rendered(loading_bar') =
            IF loading_bar'.current_step >= loading_bar'.total_steps THEN 100
            ELSE (loading_bar'.current_step * 100) \div loading_bar'.total_steps
       /\ Rendered(loading_bar') <= 100
       /\ loading_bar'.current_step = 0 => loading_bar'.rendered.eta = "--:--"]_vars

\* the verdict of the validation a run_command call returned
Failed(call) == ~call.raised /\ ~call.result.validation.test_passed

\* C23: a validation failure never halts the session: after a FAIL verdict the
\* loop of the phase goes on to its next command, the phases follow one
\* another in order, and the session ends only after report generation or by
\* the operator's interrupt, however many validations have failed.
FailureNeverHalts ==
  [][/\ (calls' = calls + 1 /\ Failed(ret')) =>
          /\ pc' = "commands"
          /\ idx' = idx + 1
          /\ Len(simulation_results') = Len(simulation_results) + 1
     /\ phase' # phase => phase' = phase + 1
     /\ (pc' = "done" /\ pc # "report") => Interrupt]_vars

\* every validation of the session has failed, and after the last phase
\* report generation is reached
FailureNeverHalts_all_failed ==
  /\ pc = "report"
  /\ phase = NumPhases
  /\ calls = TotalCommands
  /\ Len(simulation_results) = calls
  /\ test_summary.failed_tests = calls

\* the commands of the phases from the i-th on, each with its feature, in the
\* order run_full_simulation calls the phases and each phase lists its commands
RECURSIVE IssuedFrom(_, _)
IssuedFrom(phases, i) ==
  IF i > Len(phases) THEN <<>>
  ELSE [j \in 1..Len(phases[i].commands) |->
          [feature |-> phases[i].feature, command |-> phases[i].commands[j]]]
       \o IssuedFrom(phases, i + 1)

\* the n-th command of issued is the one run_command was called with last, and
\* its record is the last of simulation_results
LastIsIssued(issued, n) ==
  /\ n <= Len(issued)
  /\ ret.command = issued[n].command
  /\ ret.feature = issued[n].feature
  /\ simulation_results[n].feature = issued[n].feature
  /\ simulation_results[n].result.command = Join(issued[n].command)

\* C24: phases run one after another in the order of run_full_simulation, and
\* each command is executed, validated and appended to simulation_results
\* before the next is issued: the n-th record is that of the n-th command
\* issued, earlier records stay where they are, and the report lists them in
\* that order.
RecordsFollowIssueOrder ==
  /\ [](/\ Len(simulation_results) = calls
        /\ calls > 0 => LastIsIssued(IssuedFrom(Phases(FallbackRegions, env.draw), 1), calls)
        /\ report # None => report.detailed_results = simulation_results)
  /\ [][SubSeq(simulation_results', 1, Len(simulation_results)) = simulation_results]_vars

\* a session has returned its report, with the records of all its phases
RecordsFollowIssueOrder_reported ==
  /\ pc = "done"
  /\ report # None
  /\ Len(report.detailed_results) = TotalCommands
  /\ report.detailed_results[1].feature = "credential_auto_detection"
  /\ report.detailed_results[TotalCommands].feature = "interactive_mode"

\* C25: the availability-probe cache is safe under concurrent use: when two
\* callers enter run_command before the cache is set, the probe is executed at
\* most once and both callers act on the same cached value.
ProbeCacheIsSafe ==
  pc = "callers" =>
    /\ probes <= 1
    /\ \A t, u \in Threads :
         (threads[t].acted # "nothing" /\ threads[u].acted # "nothing") =>
           threads[t].acted = threads[u].acted

\* the positions of a caller that waits for a subprocess: the probe's, the command's
Waiting == {"probe", "launch"}

\* the positions of update inside its `with self.lock:` block
UnderLock == {"step"} \cup InUpdate

CommandProgressIsFraction ==
  (pc = "commands" /\ idx > 1) =>
    /\ tui.loading_bar.rendered.step_title =
         [feature |-> tui.current_feature, completed |-> tui.completed_commands,
          total |-> tui.total_commands]
    /\ tui.loading_bar.rendered.percentage =
         (100 * tui.completed_commands) \div tui.total_commands
    /\ tui.loading_bar.rendered.percentage = 100 =>
         tui.completed_commands = tui.total_commands

\* C28: on every path through run_command the command is validated exactly
\* once and reported to the TUI exactly once: after n calls completed_commands
\* is n and the statistics have counted no command twice.
ValidatedAndReportedOnce ==
  (pc = "direct" /\ calls > 0) =>
    /\ ret.path \in {"unavailable", "completed", "timeout", "not_found", "error"}
    /\ Len(ret.validations) = 1
    /\ Len(ret.reported) = 1
    /\ tui.completed_commands = calls
    /\ test_summary.total_tests <= calls
    /\ \A f \in DOMAIN test_summary.feature_results :
         test_summary.feature_results[f].total <= calls

\* two calls have returned, the last through the FileNotFoundError handler,
\* and both were counted by the statistics
ValidatedAndReportedOnce_handlers ==
  /\ pc = "direct"
  /\ calls = 2
  /\ ret.path = "not_found"
  /\ tui.completed_commands = 2
  /\ test_summary.total_tests = 2

\* C29: the status run_command reports to the TUI for a command equals the
\* verdict validate_command_result returned for it, on every path.
ReportedStatusIsVerdict ==
  (pc = "direct" /\ calls > 0) => ret.reported = ret.validations

\* C30: in the comprehensive simulation, after every return of run_command
\* commands_executed = successful_commands + failed_commands, and the
\* reported success_rate is successful / executed * 100, or 0 when no command
\* was executed.
SessionCountersAddUp ==
  pc \in {"session", "session_reported"} =>
    /\ user_session.commands_executed = calls
    /\ user_session.commands_executed =
         user_session.successful_commands + user_session.failed_commands
    /\ calls > 0 =>
         ret.result.success = (ret.result.returncode = 0)
    /\ pc = "session_reported" =>
         /\ report.command_stats.total_commands =
              report.command_stats.successful_commands + report.command_stats.failed_commands
         /\ report.command_stats.success_rate =
              IF user_session.commands_executed = 0 THEN Ratio(0, 1)
              ELSE Ratio(user_session.successful_commands * 100,
                         user_session.commands_executed)

\* a report after one success and one timeout: the rate is 100 / 2
SessionCountersAddUp_half ==
  /\ pc = "session_reported"
  /\ user_session.successful_commands = 1
  /\ user_session.failed_commands = 1
  /\ ret.result.returncode = -1
  /\ ret.result.duration > 0
  /\ report.command_stats.success_rate = Ratio(100, 2)

=============================================================================
